---- MODULE Spec2Model ----
(***************************************************************************)
(* A model of the request orchestrator of the AI proxy (app.py), of the    *)
(* command-alias routing in front of it, and of the rate limiter it calls. *)
(*                                                                         *)
(* Strings are sequences of chunks.  A chunk stands for a run of           *)
(* characters; the chunk "custom" is the six letters c-u-s-t-o-m, and no   *)
(* other chunk, nor any concatenation of other chunks, contains them.  So  *)
(* suffix and substring tests on a string are tests on its chunks.         *)
(* JSON scalars are written as their JSON text ("true", "false", "[]").    *)
(***************************************************************************)
EXTENDS Integers, Sequences, FiniteSets, TLC

\* ---------------------------------------------------------------- bounds
MaxProviders == 2      \* rows of the providers table
MaxAliases == 1        \* rows of the command_aliases table
MaxLimit == 2          \* largest max_requests a RateLimiter is built with
MaxWindow == 2         \* largest window_seconds a RateLimiter is built with
MaxTime == 2           \* the clock stops at this instant
MaxWorkers == 2        \* worker threads that call is_allowed concurrently
MaxAdmitted == 2       \* requests of one address that the settings run lets past the limiter
MaxChunks == 2         \* chunks in an upstream body

\* ------------------------------------------------------------- constants
HTTP_OK == 200
HTTP_BAD_REQUEST == 400
HTTP_NOT_FOUND == 404
HTTP_TOO_MANY == 429
HTTP_SERVER_ERROR == 500

\* ---------------------------------------------------------------- strings
LowerCh(c) ==
    CASE c = "OpenRouter" -> "openrouter"
      [] c = "Fast" -> "fast"
      [] c = "Grok" -> "grok"
      [] c = "Direct" -> "direct"
      [] c = "Claude" -> "claude"
      [] OTHER -> c

\* str.lower()
Lower(s) == [i \in DOMAIN s |-> LowerCh(s[i])]

\* str.replace(old, new) for one-chunk old and new
Replace(s, old, new) == [i \in DOMAIN s |-> IF s[i] = old THEN new ELSE s[i]]

\* str.endswith(suffix)
EndsWith(s, suffix) ==
    /\ Len(s) >= Len(suffix)
    /\ SubSeq(s, Len(s) - Len(suffix) + 1, Len(s)) = suffix

\* 'sub' in s, for a one-chunk sub
Contains(s, sub) == \E i \in DOMAIN s : s[i] = sub

CustomSuffix == <<"-", "custom">>

\* Python's 0-based row[i]
PyIndex(row, i) == row[i + 1]

\* {}
EmptyDict == [k \in {} |-> ""]

\* d[key] = value
SetItem(d, key, value) ==
    [k \in DOMAIN d \cup { key } |-> IF k = key THEN value ELSE d[k]]

\* The content of a TEXT column: plain text, or what json.dumps wrote.
Text(s) == [json |-> FALSE, text |-> s, value |-> EmptyDict]
JsonDumps(d) == [json |-> TRUE, text |-> "", value |-> d]

\* json.loads: ok is FALSE where it raises JSONDecodeError.
JsonLoads(t) == [ok |-> t.json, value |-> t.value]

\* Python truth value of a text
TextTruthy(t) == t.json \/ t.text # ""

\* str.index(sep)
FirstIndex(s, sep) == CHOOSE i \in DOMAIN s : s[i] = sep /\ \A j \in 1..(i - 1) : s[j] # sep

\* str.split(sep)
RECURSIVE Split(_, _)
Split(s, sep) ==
    IF ~Contains(s, sep)
    THEN << s >>
    ELSE << SubSeq(s, 1, FirstIndex(s, sep) - 1) >> \o
         Split(SubSeq(s, FirstIndex(s, sep) + 1, Len(s)), sep)

\* sep.join(pieces)
RECURSIVE Join(_, _)
Join(pieces, sep) ==
    IF pieces = << >> THEN << >>
    ELSE IF Len(pieces) = 1 THEN pieces[1]
    ELSE pieces[1] \o << sep >> \o Join(Tail(pieces), sep)

\* ------------------------------------------------------------------ state
VARIABLES
    providers,        \* rows of the providers table
    aliases,          \* rows of the command_aliases table
    provider_keys,    \* keys of ProviderRegistry.providers
    settings,         \* the app_settings row
    rate_limit_settings, \* its columns rate_limit_requests and rate_limit_window
    prompt_config,    \* the prompt_config row
    provider_columns, \* provider id -> the other columns of its providers row
    provider_headers, \* rows of the provider_headers table
    sqlite_sequence,  \* the largest id the providers table has handed out
    fn,               \* history: the last call of a helper function
    admin,            \* history: the last operation of the admin
    max_requests,     \* RateLimiter.max_requests
    window_seconds,   \* RateLimiter.window_seconds
    requests,         \* RateLimiter.requests: identifier -> timestamps
    now,              \* time.time()
    lock,             \* RateLimiter.lock: the worker that holds it, 0 when free
    workers,          \* worker thread -> its position and locals in is_allowed
    admitted,         \* history: identifier -> times of every admitted call
    last_call,        \* history: the last limiter call and its result
    pc,               \* position of the worker inside the request handler
    token,            \* the path segment after /v1/messages/
    handler,          \* the view function the URL map dispatched to
    alias_info,       \* what get_provider_by_alias returned
    provider_name,    \* proxy_request's argument
    custom_prompt,    \* proxy_request's argument
    client_ip,        \* request.remote_addr
    app_settings,     \* proxy_request's local copy of the settings
    body,             \* the inbound request body
    data,             \* proxy_request's local: the parsed, then validated body
    provider_config,  \* proxy_request's local
    provider_instance,\* proxy_request's local: registry key of the adapter
    used_template,    \* prepare_request was given the prompt template
    stream,           \* proxy_request's local
    sent_stream,      \* history: the stream argument of each send_request
    upstream,         \* the upstream's answer to send_request
    log_row,          \* the request_logs row this call inserted
    response,         \* what the caller receives
    trace             \* history: the steps this call has entered

store_vars == <<providers, aliases, provider_keys, settings, rate_limit_settings,
               prompt_config, provider_columns, provider_headers, sqlite_sequence>>
thread_vars == <<lock, workers>>
fn_vars == <<fn, admin>>
limiter_vars == <<max_requests, window_seconds, requests, now, admitted, last_call>>
call_vars == <<pc, token, handler, alias_info, provider_name, custom_prompt,
               client_ip, app_settings, body, data, provider_config,
               provider_instance, used_template, stream, sent_stream,
               upstream, log_row, response, trace>>
vars == <<store_vars, limiter_vars, thread_vars, call_vars, fn_vars>>

\* ---------------------------------------------------------------- universes
ProviderNames == { <<"OpenRouter">>, <<"fast">>, <<"fast", "-", "custom">> }
AliasTokens == { <<"fast">>, <<"fast", "-", "custom">> }
Tokens == ProviderNames \cup AliasTokens \cup
          { <<"openrouter">>, <<"custom", "fast">>, <<"nonexistent">> }
\* Path segments no rule of /v1/messages/ matches: the empty one.
UnmatchedPaths == { <<>> }
AliasTypes == { "standard", "custom" }
Identifiers == { "10.0.0.1", "10.0.0.2" }
ClientAddrs == { "10.0.0.1" }
\* The upstream's Content-Type header; NoContentType when it sends none.
NoContentType == ""
ContentTypes == { "application/json", "text/event-stream", NoContentType }

\* Response(..., content_type=response.headers.get('Content-Type')): a
\* content_type of None leaves the response class's default in place.
DefaultContentType == "text/html; charset=utf-8"
RelayContentType(u) ==
    IF u.content_type = NoContentType THEN DefaultContentType ELSE u.content_type

\* An upstream body is a sequence of chunks; a chunk is a sequence of bytes,
\* here the single byte that numbers it.
UpstreamBodies == { [i \in 1..n |-> <<i>>] : n \in 0..MaxChunks }

\* -------------------------------------------------------------------- store
NoProvider == [id |-> 0, name |-> <<>>]
NoAlias == [id |-> 0, name |-> <<>>, alias_type |-> "none"]

\* The providers and command_aliases tables with their constraints: id is the
\* primary key, name is UNIQUE; an alias row references an existing provider
\* and is UNIQUE per (provider_id, alias_type).
ProviderTables ==
    { ps \in SUBSET [id : 1..MaxProviders, name : ProviderNames] :
        /\ Cardinality(ps) <= MaxProviders
        /\ \A p, q \in ps : (p.id = q.id \/ p.name = q.name) => p = q
        /\ \A p \in ps : \A i \in 1..p.id : \E q \in ps : q.id = i }

AliasTables(ps) ==
    { as \in SUBSET [provider_id : { p.id : p \in ps }, alias_type : AliasTypes,
                     command_alias : AliasTokens, is_active : { TRUE }] :
        /\ Cardinality(as) <= MaxAliases
        /\ \A a, b \in as :
              (a.provider_id = b.provider_id /\ a.alias_type = b.alias_type) => a = b }

\* The columns update_database_schema adds, as initialize_database and the
\* admin fill them for a provider without a model mapping.
DefaultColumns ==
    [is_active |-> FALSE, model_mapping |-> JsonDumps(EmptyDict),
     api_standard |-> Text("openai"), supported_models |-> JsonDumps(EmptyDict)]

\* One row of SELECT p.* : the nine columns _create_tables declares, then the
\* three that update_database_schema adds, in the order it adds them.
ProviderRow(p) ==
    << p.id, p.name, "api_endpoint", "api_key", "default_model", "auth_method",
       provider_columns[p.id].is_active, "created_at", "updated_at",
       provider_columns[p.id].model_mapping, provider_columns[p.id].api_standard,
       provider_columns[p.id].supported_models >>

\* The orders in which the rows of a set can be visited.
Orderings(S) ==
    { f \in [1..Cardinality(S) -> S] : \A i, j \in 1..Cardinality(S) : f[i] = f[j] => i = j }

\* GROUP_CONCAT(ph.header_key || ':' || ph.header_value) over the header rows
\* of a provider: the possible texts (the order of the rows is not fixed);
\* NULL, here the empty text, when it has none.
GroupConcat(provider_id) ==
    LET rows == { ph \in provider_headers : ph.provider_id = provider_id }
    IN IF rows = {}
       THEN { << >> }
       ELSE { Join([i \in DOMAIN f |-> f[i].header_key \o << ":" >> \o f[i].header_value],
                   ",") : f \in Orderings(rows) }

\* SELECT p.*, GROUP_CONCAT(...) as headers ... GROUP BY p.id, for one provider
SelectProviderRows(p) == { Append(ProviderRow(p), headers) : headers \in GroupConcat(p.id) }

\* for header_pair in headers_list: if ':' in header_pair: ...split(':', 1)
RECURSIVE ParseHeaderPairs(_, _)
ParseHeaderPairs(headers_list, headers) ==
    IF headers_list = << >>
    THEN headers
    ELSE LET header_pair == Head(headers_list)
             colon == FirstIndex(header_pair, ":")
         IN ParseHeaderPairs(Tail(headers_list),
                IF Contains(header_pair, ":")
                THEN SetItem(headers, SubSeq(header_pair, 1, colon - 1),
                             SubSeq(header_pair, colon + 1, Len(header_pair)))
                ELSE headers)

\* json.loads of a column, {} when it is empty or does not parse
ParseJsonColumn(t) ==
    IF TextTruthy(t) /\ JsonLoads(t).ok THEN JsonLoads(t).value ELSE EmptyDict

\* _parse_provider_row
ParseProviderRow(row) ==
    [id |-> PyIndex(row, 0),
     name |-> PyIndex(row, 1),
     is_active |-> PyIndex(row, 6),
     api_standard |-> IF Len(row) > 9 THEN PyIndex(row, 9) ELSE Text("openai"),
     supported_models |->
         ParseJsonColumn(IF Len(row) > 10 THEN PyIndex(row, 10) ELSE JsonDumps(EmptyDict)),
     model_mapping |->
         ParseJsonColumn(IF Len(row) > 11 THEN PyIndex(row, 11) ELSE JsonDumps(EmptyDict)),
     headers |-> IF Len(row) > 12 /\ PyIndex(row, 12) # << >>
                 THEN ParseHeaderPairs(Split(PyIndex(row, 12), ","), EmptyDict)
                 ELSE EmptyDict]

\* SELECT p.*, ca.alias_type FROM command_aliases ca JOIN providers p
\*   ON ca.provider_id = p.id WHERE ca.command_alias = ? AND ca.is_active = 1
AliasJoinRows(command_alias) ==
    UNION { { Append(ProviderRow(p), a.alias_type) :
                a \in { x \in aliases : /\ x.provider_id = p.id
                                        /\ x.command_alias = command_alias
                                        /\ x.is_active } } : p \in providers }

\* The dictionary get_provider_by_alias builds from a fetched row.
AliasInfoOfRow(row) ==
    [id |-> PyIndex(row, 0), name |-> PyIndex(row, 1), alias_type |-> PyIndex(row, 8)]

\* get_provider_by_alias: the possible results (fetchone takes any matching
\* row; None when there is none).
GetProviderByAlias(command_alias) ==
    IF AliasJoinRows(command_alias) = {}
    THEN { NoAlias }
    ELSE { AliasInfoOfRow(row) : row \in AliasJoinRows(command_alias) }

\* ----------------------------------------------------------------- registry
ProviderModules == { <<"grok", "_", "direct">>, <<"grok", "_", "openai">>, <<"openrouter">> }

\* discover_providers: provider_key = module_name.replace('_', '-')
DiscoveredKeys == { Replace(m, "_", "-") : m \in ProviderModules }

NormalizeProviderName(name) ==
    LET provider_name_lower == Replace(Replace(Lower(name), " ", "_"), "-", "_")
        hits == { key \in provider_keys : Lower(key) = provider_name_lower }
    IN IF hits # {} THEN CHOOSE key \in hits : TRUE ELSE name

GetProviderClass(provider_key) ==
    IF provider_key \in provider_keys THEN provider_key ELSE <<>>

\* get_provider_by_name without its WHERE clause: any stored row is returned.
GetProviderByName_Mutant(name) ==
    IF providers = {} THEN { NoProvider } ELSE providers

\* get_provider_by_name: the possible results (WHERE LOWER(p.name) = LOWER(?)).
GetProviderByName(name) ==
    LET normalized_name == NormalizeProviderName(name)
        rows == { p \in providers : Lower(p.name) = Lower(normalized_name) }
    IN IF rows = {} THEN { NoProvider } ELSE rows

\* get_provider_by_name: the configurations it can return for a name that
\* has a row.
GetProviderConfig(name) ==
    UNION { { ParseProviderRow(row) : row \in SelectProviderRows(p) } :
               p \in GetProviderByName(name) \ { NoProvider } }

\* create_provider_instance: the adapter's registry key, <<>> for None.
CreateProviderInstance(config) ==
    GetProviderClass(NormalizeProviderName(config.name))

\* ------------------------------------------------------------------ routing
\* The URL rules of app.py in registration order.  Each is
\* /v1/messages/<variable> followed by a static suffix.
UrlRules ==
    << [endpoint |-> "alias_based_proxy", suffix |-> <<>>],
       [endpoint |-> "provider_standard", suffix |-> <<>>],
       [endpoint |-> "provider_custom", suffix |-> CustomSuffix] >>

\* A rule matches a path segment that ends with its suffix and leaves a
\* non-empty variable part.
RuleMatches(rule, t) == EndsWith(t, rule.suffix) /\ Len(t) > Len(rule.suffix)

\* The URL map tries the rule with more static text first and, among equals,
\* the one registered first.
RouteOf(t) ==
    LET matching == { i \in DOMAIN UrlRules : RuleMatches(UrlRules[i], t) }
        best == CHOOSE i \in matching : \A j \in matching :
                    \/ Len(UrlRules[i].suffix) > Len(UrlRules[j].suffix)
                    \/ Len(UrlRules[i].suffix) = Len(UrlRules[j].suffix) /\ i <= j
    IN UrlRules[best]

PathArg(t) == SubSeq(t, 1, Len(t) - Len(RouteOf(t).suffix))

\* The view functions: the possible calls of proxy_request each one makes.
AliasBasedProxy(command_alias) ==
    { IF provider_info = NoAlias
      THEN [provider_name |-> command_alias,
            custom_prompt |-> Contains(command_alias, "custom"),
            alias_info |-> provider_info]
      ELSE [provider_name |-> provider_info.name,
            custom_prompt |-> (provider_info.alias_type = "custom"),
            alias_info |-> provider_info]
      : provider_info \in GetProviderByAlias(command_alias) }

ProviderStandard(name) ==
    { [provider_name |-> name, custom_prompt |-> FALSE, alias_info |-> NoAlias] }

ProviderCustom(name) ==
    { [provider_name |-> name, custom_prompt |-> TRUE, alias_info |-> NoAlias] }

ViewCalls(t) ==
    CASE RouteOf(t).endpoint = "alias_based_proxy" -> AliasBasedProxy(PathArg(t))
      [] RouteOf(t).endpoint = "provider_standard" -> ProviderStandard(PathArg(t))
      [] RouteOf(t).endpoint = "provider_custom" -> ProviderCustom(PathArg(t))

\* ------------------------------------------------------------- rate limiter
\* Prune with the window closed at its old end: a call exactly window_seconds
\* old still counts.
Prune_Mutant(timestamps, t) == SelectSeq(timestamps, LAMBDA ts : t - ts <= window_seconds)

\* [timestamp for timestamp in requests[identifier] if now - timestamp < window]
Prune(timestamps, t) == SelectSeq(timestamps, LAMBDA ts : t - ts < window_seconds)

IsAllowedResult(identifier, t) == Len(Prune(requests[identifier], t)) < max_requests

IsAllowedRequests(identifier, t) ==
    [requests EXCEPT ![identifier] =
        IF IsAllowedResult(identifier, t)
        THEN Append(Prune(requests[identifier], t), t)
        ELSE Prune(requests[identifier], t)]

IsAllowedAdmitted(identifier, t) ==
    IF IsAllowedResult(identifier, t)
    THEN [admitted EXCEPT ![identifier] = Append(@, t)]
    ELSE admitted

Max(a, b) == IF a >= b THEN a ELSE b

GetRemainingResult(identifier, t) ==
    Max(0, max_requests - Len(Prune(requests[identifier], t)))

NoCall == [op |-> "none", identifier |-> "", allowed |-> FALSE, remaining |-> 0,
           before |-> 0]

\* History of one limiter call at the instant now: its results, and the number
\* of calls for the identifier that were admitted within the window before it.
CallRecord(op, identifier) ==
    [op |-> op, identifier |-> identifier,
     allowed |-> (op = "is_allowed" /\ IsAllowedResult(identifier, now)),
     remaining |-> IF op = "get_remaining_requests"
                   THEN GetRemainingResult(identifier, now) ELSE 0,
     before |-> Len(SelectSeq(admitted[identifier],
                              LAMBDA ts : now - window_seconds < ts /\ ts <= now))]

\* ------------------------------------------------------------------- errors
RateLimitError == [class |-> "RateLimitError", proxy_error |-> TRUE,
                   error_code |-> "RATE_LIMIT_ERROR", status_code |-> HTTP_TOO_MANY]

\* what request.json raises when the body does not parse
BadRequest == [class |-> "BadRequest", proxy_error |-> FALSE,
               error_code |-> "", status_code |-> HTTP_BAD_REQUEST]

NoResponse == [kind |-> "none", status |-> 0, code |-> "", body_status |-> 0,
               content_type |-> "", body |-> <<>>]

\* return create_error_response(message, code, status), http_status
ErrorResponse(code, status, http_status) ==
    [kind |-> "error", status |-> http_status, code |-> code, body_status |-> status,
     content_type |-> "application/json", body |-> <<>>]

\* The except clause that closes proxy_request's try block.
ProxyRequestExcept(exc) == ErrorResponse("INTERNAL_ERROR", HTTP_SERVER_ERROR, HTTP_SERVER_ERROR)

\* ------------------------------------------------------------ request bodies
Absent == "absent"

MakeDict(model, messages, strm) ==
    [k \in ({ "model" : x \in { model } \ { Absent } } \cup
            { "messages" : x \in { messages } \ { Absent } } \cup
            { "stream" : x \in { strm } \ { Absent } }) |->
        CASE k = "model" -> model
          [] k = "messages" -> messages
          [] k = "stream" -> strm]

ModelValues == { Absent, "", "claude" }
MessagesValues == { Absent, "[]", "text" }
StreamValues == { Absent, "true", "false" }

JsonValues ==
    { [type |-> "null", items |-> 0, fields |-> EmptyDict],
      [type |-> "list", items |-> 0, fields |-> EmptyDict],
      [type |-> "list", items |-> 1, fields |-> EmptyDict] } \cup
    { [type |-> "dict", items |-> 0, fields |-> MakeDict(m, ms, st)] :
        m \in ModelValues, ms \in MessagesValues, st \in StreamValues }

NoData == [type |-> "null", items |-> 0, fields |-> EmptyDict]

\* An inbound body: its Content-Type is JSON or not, its text parses or not.
Bodies ==
    { [content_json |-> TRUE, well_formed |-> TRUE, value |-> v] : v \in JsonValues } \cup
    { [content_json |-> FALSE, well_formed |-> TRUE, value |-> v] :
        v \in { [type |-> "dict", items |-> 0, fields |-> MakeDict("claude", "[]", Absent)] } } \cup
    { [content_json |-> cj, well_formed |-> FALSE, value |-> NoData] : cj \in BOOLEAN }

NoBody == [content_json |-> FALSE, well_formed |-> FALSE, value |-> NoData]

\* Python truth value of a parsed JSON value
Truthy(v) ==
    CASE v.type = "dict" -> DOMAIN v.fields # {}
      [] v.type = "list" -> v.items > 0
      [] OTHER -> FALSE

IsList(x) == x \in { "[]", "[m]" }

\* dict.get(key, default)
Get(d, key, default) == IF key \in DOMAIN d THEN d[key] ELSE default

ValidatedKeys == { "model", "messages", "max_tokens", "temperature", "system",
                   "tools", "tool_choice" }

\* JSON numbers in the bodies, written as their JSON text.
JsonInts == { "-1", "0", "1", "100", "4096", "4097" }
JsonFloats == { "0.5", "1.5" }

\* A string of 101 characters.
LongString == "a-model-name-of-101-characters"

\* type(value) of a parsed JSON value
PyType(v) ==
    CASE v = "null" -> "NoneType"
      [] v \in { "true", "false" } -> "bool"
      [] v \in JsonInts -> "int"
      [] v \in JsonFloats -> "float"
      [] v \in { "[]", "[m]" } -> "list"
      [] OTHER -> "str"

\* isinstance(value, (int, float)): bool is a subclass of int
IsIntOrFloat(v) == PyType(v) \in { "int", "float", "bool" }

\* Ten times the value of a number (True is 1, False is 0).
Tenths(v) ==
    CASE v = "-1" -> -10
      [] v = "0" -> 0
      [] v = "1" -> 10
      [] v = "100" -> 1000
      [] v = "4096" -> 40960
      [] v = "4097" -> 40970
      [] v = "0.5" -> 5
      [] v = "1.5" -> 15
      [] v = "true" -> 10
      [] v = "false" -> 0

\* int(value): numbers and booleans are truncated, a string of digits is
\* read, anything else raises ValueError or TypeError (ok is FALSE).
PyInt(v) ==
    CASE IsIntOrFloat(v) -> [ok |-> TRUE, value |-> Tenths(v) \div 10]
      [] v = "'100'" -> [ok |-> TRUE, value |-> 100]
      [] OTHER -> [ok |-> FALSE, value |-> 0]

\* str(value), for a value that is not a string already
PyStr(v) == IF v = "100" THEN "'100'" ELSE v

\* len(value) of a string
StrLen(v) ==
    CASE v = "" -> 0
      [] v = "'100'" -> 3
      [] v = "text" -> 4
      [] v = "claude" -> 6
      [] v = LongString -> 101

\* Validator.validate_string(value, field_name, min_length, max_length) with
\* required=True: ok is FALSE where it raises ValidationError.
ValidateString(value, min_length, max_length) ==
    IF value = "null" \/ value = ""
    THEN [ok |-> FALSE, value |-> ""]
    ELSE LET text == IF PyType(value) = "str" THEN value ELSE PyStr(value)
         IN IF StrLen(text) < min_length \/ StrLen(text) > max_length
            THEN [ok |-> FALSE, value |-> ""]
            ELSE [ok |-> TRUE, value |-> text]

\* Validator.validate_integer(value, field_name, min_value, max_value) with
\* required=True; the integer it returns is written as its JSON text.
ValidateInteger(value, min_value, max_value) ==
    IF value = "null" \/ ~PyInt(value).ok
    THEN [ok |-> FALSE, value |-> ""]
    ELSE IF PyInt(value).value < min_value \/ PyInt(value).value > max_value
    THEN [ok |-> FALSE, value |-> ""]
    ELSE [ok |-> TRUE, value |-> ToString(PyInt(value).value)]

\* the bounds validate_anthropic_request passes to the validators
ModelMinLength == 1
ModelMaxLength == 100
MaxTokensMin == 1
MaxTokensMax == 4096

\* validate_anthropic_request: ok is FALSE where it raises ValidationError.
ValidateAnthropicRequest(request_data) ==
    LET f == request_data.fields
    IN IF \/ request_data.type # "dict"
          \/ "model" \notin DOMAIN f
          \/ ~ValidateString(f["model"], ModelMinLength, ModelMaxLength).ok
          \/ "messages" \notin DOMAIN f
          \/ ~IsList(f["messages"])
          \/ /\ "max_tokens" \in DOMAIN f
             /\ ~ValidateInteger(f["max_tokens"], MaxTokensMin, MaxTokensMax).ok
          \/ /\ "temperature" \in DOMAIN f
             /\ \/ ~IsIntOrFloat(f["temperature"])
                \/ Tenths(f["temperature"]) < 0
                \/ Tenths(f["temperature"]) > 10
          \/ /\ "tools" \in DOMAIN f
             /\ ~IsList(f["tools"])
       THEN [ok |-> FALSE, value |-> NoData]
       ELSE [ok |-> TRUE,
             value |-> [type |-> "dict", items |-> 0,
                        fields |-> [k \in DOMAIN f \cap ValidatedKeys |->
                            CASE k = "model" ->
                                   ValidateString(f[k], ModelMinLength, ModelMaxLength).value
                              [] k = "max_tokens" ->
                                   ValidateInteger(f[k], MaxTokensMin, MaxTokensMax).value
                              [] OTHER -> f[k]]]]

\* The requests validate_anthropic_request is exercised with: every
\* combination of the values below, a field being left out where the value
\* is Absent; and two bodies that are not objects.
RequestValues ==
    [model : { Absent, "", "null", "claude", "100", LongString },
     messages : { Absent, "[]", "[m]", "text" },
     max_tokens : { Absent, "null", "0", "1", "4096", "4097", "1.5", "'100'", "text",
                    "true" },
     temperature : { Absent, "0", "1", "0.5", "1.5", "-1", "true", "text" },
     tools : { Absent, "[]", "text" },
     stream : { Absent, "true" }]

DictOf(r) == [k \in { x \in DOMAIN r : r[x] # Absent } |-> r[k]]

ValidationRequests ==
    { [type |-> "dict", items |-> 0, fields |-> DictOf(r)] : r \in RequestValues } \cup
    { [type |-> "list", items |-> 1, fields |-> EmptyDict],
      [type |-> "str", items |-> 0, fields |-> EmptyDict] }

\* ----------------------------------------------------------------- upstream
NoUpstream == [status_code |-> 0, content_type |-> "", chunks |-> <<>>, json_ok |-> FALSE]

\* The status codes an upstream answers with: success, and a failure.
UpstreamStatuses == { HTTP_OK, 503 }

\* json_ok: response.json() parses the body.
UpstreamResponses ==
    { [status_code |-> HTTP_OK, content_type |-> ct, chunks |-> cs, json_ok |-> jo] :
        ct \in ContentTypes, cs \in UpstreamBodies, jo \in BOOLEAN } \cup
    { [status_code |-> sc, content_type |-> ct, chunks |-> cs, json_ok |-> FALSE] :
        sc \in UpstreamStatuses \ { HTTP_OK }, ct \in ContentTypes, cs \in UpstreamBodies }

\* json.dumps(create_error_response(..., "STREAMING_ERROR", 500)) as bytes
StreamingErrorChunk == <<0>>

\* generate(): the chunks the caller receives when iter_content raises after
\* broken_after chunks (never, when broken_after exceeds the body).
Generate(chunks, broken_after) ==
    IF broken_after >= Len(chunks)
    THEN SelectSeq(chunks, LAMBDA chunk : chunk # <<>>)
    ELSE Append(SelectSeq(SubSeq(chunks, 1, broken_after), LAMBDA chunk : chunk # <<>>),
                StreamingErrorChunk)

\* --------------------------------------------------------- helper functions
\* None, where a model name is expected
NoModel == ""

\* The keys a stored model mapping may have, and the model each maps to.
MappingKeys == { <<"claude", "-", "3">>, <<"claude">>, <<"Claude", "_", "3">> }
TargetModel(key) ==
    CASE key = <<"claude", "-", "3">> -> "vendor/model-x"
      [] key = <<"claude">> -> "vendor/model-y"
      [] key = <<"Claude", "_", "3">> -> "vendor/model-z"
Mappings == { [k \in ks |-> TargetModel(k)] : ks \in SUBSET MappingKeys }

\* The model names a caller asks for.
ModelNames == { <<"claude", "-", "3">>, <<"Claude", "_", "3">>, <<"claude", " ", "3">>,
                <<"claude", "-", "9">>, <<"Claude">>, <<"gpt", "-", "4">> }

\* The provider names the helpers are called with.
LookupNames == { <<"Grok", " ", "(", "Direct", ")">>, <<"grok", "-", "direct">>,
                 <<"Grok", "-", "Direct">>, <<"grok", "_", "direct">>,
                 <<"OpenRouter">>, <<"openrouter">>, <<"fast">>, <<"nonexistent">> }

\* str.split(sep)[0]
SplitFirst(s, sep) ==
    LET hits == { i \in DOMAIN s : s[i] = sep }
    IN IF hits = {}
       THEN s
       ELSE SubSeq(s, 1, (CHOOSE i \in hits : \A j \in hits : i <= j) - 1)

\* get_model_mapping: the possible results.
GetModelMapping(name, model_name) ==
    { IF provider = NoProvider
      THEN NoModel
      ELSE LET mapping == ParseProviderRow(CHOOSE row \in SelectProviderRows(provider) :
                                                TRUE).model_mapping
               normalized_model == Replace(Replace(Lower(model_name), " ", "-"), "_", "-")
               simplified_model == SplitFirst(normalized_model, "-")
           IN IF DOMAIN mapping = {} THEN NoModel
              ELSE IF model_name \in DOMAIN mapping THEN mapping[model_name]
              ELSE IF normalized_model \in DOMAIN mapping THEN mapping[normalized_model]
              ELSE IF /\ Contains(normalized_model, "-")
                      /\ simplified_model \in DOMAIN mapping
                   THEN mapping[simplified_model]
              ELSE NoModel
      : provider \in GetProviderByName(name) }

AuthMethods == { "bearer_token", "basic_auth", "custom_header", "api_key" }
ApiKeys == { "sk-1", "sk-2" }

\* base64.b64encode(key.encode()).decode()
Base64(key) ==
    CASE key = "sk-1" -> "c2stMQ=="
      [] key = "sk-2" -> "c2stMg=="

\* get_auth_headers with the key of the basic-auth method left unencoded.
GetAuthHeaders_Mutant(auth_method, api_key) ==
    CASE auth_method = "bearer_token" ->
            [h \in { "Authorization" } |-> << "Bearer ", api_key >>]
      [] auth_method = "basic_auth" ->
            [h \in { "Authorization" } |-> << "Basic ", api_key >>]
      [] OTHER -> [h \in {} |-> << >>]

\* BaseProvider.get_auth_headers
GetAuthHeaders(auth_method, api_key) ==
    CASE auth_method = "bearer_token" ->
            [h \in { "Authorization" } |-> << "Bearer ", api_key >>]
      [] auth_method = "basic_auth" ->
            [h \in { "Authorization" } |-> << "Basic ", Base64(api_key) >>]
      [] OTHER -> [h \in {} |-> << >>]

\* The model names a canonical request carries, and the canonical requests an
\* adapter is handed: a dict with any of the keys model, messages and system.
CanonicalModels == ModelNames \cup { <<"grok", "-", "4">>, <<"my", "-", "Claude">> }
CanonicalRequests ==
    { [k \in ks |-> CASE k = "model" -> m
                     [] k = "messages" -> ms
                     [] k = "system" -> "text"] :
        ks \in SUBSET { "model", "messages", "system" },
        m \in CanonicalModels, ms \in { "[]", "[m]" } }

\* the model GrokDirectProvider.prepare_request rewrites to
GrokModel == <<"grok", "-", "4">>

\* prepare_request with the test on the model name made case-sensitive.
PrepareRequest_Mutant(anthropic_request) ==
    LET request_data == anthropic_request
    IN [request_data |-> IF Contains(Get(request_data, "model", <<>>), "claude")
                         THEN SetItem(request_data, "model", GrokModel)
                         ELSE request_data,
        anthropic_request |-> anthropic_request]

\* GrokDirectProvider.prepare_request: the dict it returns, and the dict it
\* was given as that dict is after the call.  request_data is a copy, so the
\* assignment to request_data['model'] does not reach anthropic_request.
PrepareRequest(anthropic_request) ==
    LET request_data == anthropic_request
    IN [request_data |-> IF Contains(Lower(Get(request_data, "model", <<>>)), "claude")
                         THEN SetItem(request_data, "model", GrokModel)
                         ELSE request_data,
        anthropic_request |-> anthropic_request]

\* No operation of the admin yet.
\* referenced tells whether rows of command_aliases stood in the way of the
\* operation: rows of the provider for a delete, a row of the same (provider,
\* kind) with another token for a set_alias.
\* last_alias is the token last set for each (provider, kind) and not removed
\* since, << >> when there is none.
AliasPairs == (1..MaxProviders) \X AliasTypes
NoAdmin == [op |-> "none", provider_id |-> 0, alias_type |-> "", command_alias |-> << >>,
            ok |-> FALSE, referenced |-> FALSE,
            last_alias |-> [pair \in AliasPairs |-> << >>]]

\* The rows of a seeded store: the added columns as initialize_database
\* fills them, no custom header.
SeededRows ==
    /\ provider_columns = [i \in { p.id : p \in providers } |-> DefaultColumns]
    /\ provider_headers = {}
    /\ sqlite_sequence = Cardinality(providers)
    /\ admin = NoAdmin

NoFn == [op |-> "none", name |-> <<>>, model |-> <<>>, auth_method |-> "",
         api_key |-> "", out_name |-> <<>>, out_model |-> NoModel,
         out_headers |-> [h \in {} |-> << >>],
         request |-> EmptyDict, out_request |-> EmptyDict,
         request_after |-> EmptyDict, request_data |-> NoData,
         validated |-> [ok |-> FALSE, value |-> NoData]]

\* --------------------------------------------------------------------- Init
\* RateLimiter.__init__(max_requests = 100, window_seconds = 3600)
DefaultMaxRequests == 100
DefaultWindowSeconds == 3600

\* The columns rate_limit_requests and rate_limit_window as _create_tables
\* declares them (DEFAULT 100, DEFAULT 3600).
DefaultRateLimitSettings ==
    [rate_limit_requests |-> DefaultMaxRequests, rate_limit_window |-> DefaultWindowSeconds]

\* The worker threads, and a worker that is not inside is_allowed.
Workers == 1..MaxWorkers
NoWorker == [pc |-> "idle", identifier |-> "", now |-> 0, kept |-> << >>, allowed |-> FALSE]

\* threading.Lock() is free and no worker is inside is_allowed.
InitThreads ==
    /\ lock = 0
    /\ workers = [w \in Workers |-> NoWorker]

InitLimiter ==
    /\ max_requests \in 1..MaxLimit
    /\ window_seconds = MaxWindow
    /\ requests = [i \in Identifiers |-> <<>>]
    /\ now = 0
    /\ admitted = [i \in Identifiers |-> <<>>]
    /\ last_call = NoCall

InitCall ==
    /\ pc = "idle"
    /\ token = <<>>
    /\ handler = "none"
    /\ alias_info = NoAlias
    /\ provider_name = <<>>
    /\ custom_prompt = FALSE
    /\ client_ip = ""
    /\ app_settings = settings
    /\ body = NoBody
    /\ data = NoData
    /\ provider_config = NoProvider
    /\ provider_instance = <<>>
    /\ used_template = FALSE
    /\ stream = FALSE
    /\ sent_stream = <<>>
    /\ upstream = NoUpstream
    /\ log_row = "none"
    /\ response = NoResponse
    /\ trace = <<>>

\* The providers the pipeline is exercised with: one that has an adapter and
\* one that has none.
PipelineProviders ==
    { [id |-> 1, name |-> <<"OpenRouter">>], [id |-> 2, name |-> <<"fast">>] }

InitStore ==
    /\ providers = PipelineProviders
    /\ SeededRows
    /\ fn = NoFn
    /\ aliases = {}
    /\ provider_keys = DiscoveredKeys
    /\ settings \in [rate_limit_enabled : BOOLEAN, enable_full_logging : BOOLEAN]
    /\ rate_limit_settings = DefaultRateLimitSettings
    /\ prompt_config \in [use_custom_prompt : BOOLEAN]

Init == InitStore /\ InitLimiter /\ InitCall /\ InitThreads

\* Routing is exercised with every content of the two tables, the limiter
\* switched off.
InitRouteStore ==
    /\ providers \in ProviderTables
    /\ SeededRows
    /\ fn = NoFn
    /\ aliases \in AliasTables(providers)
    /\ provider_keys = DiscoveredKeys
    /\ settings = [rate_limit_enabled |-> FALSE, enable_full_logging |-> FALSE]
    /\ rate_limit_settings = DefaultRateLimitSettings
    /\ prompt_config \in [use_custom_prompt : BOOLEAN]

InitRouteLimiter ==
    /\ max_requests = 1
    /\ window_seconds = 1
    /\ requests = [i \in Identifiers |-> <<>>]
    /\ now = 0
    /\ admitted = [i \in Identifiers |-> <<>>]
    /\ last_call = NoCall

InitRoute == InitRouteStore /\ InitRouteLimiter /\ InitCall /\ InitThreads

\* ------------------------------------------------------------------ actions
\* The statement order with provider resolution moved in front of validation.
NextStep_Mutant(step) ==
    CASE step = "rate_check" -> "parse"
      [] step = "parse" -> "resolve"
      [] step = "validate" -> "instantiate"
      [] step = "resolve" -> "validate"
      [] step = "instantiate" -> "prepare"
      [] step = "prepare" -> "dispatch"
      [] step = "dispatch" -> "handle_response"
      [] step = "handle_response" -> "translate"
      [] step = "translate" -> "log"
      [] step = "log" -> "respond"

\* The statement order of proxy_request: where the worker goes when a step
\* has succeeded.
NextStep(step) ==
    CASE step = "rate_check" -> "parse"
      [] step = "parse" -> "validate"
      [] step = "validate" -> "resolve"
      [] step = "resolve" -> "instantiate"
      [] step = "instantiate" -> "prepare"
      [] step = "prepare" -> "dispatch"
      [] step = "dispatch" -> "handle_response"
      [] step = "handle_response" -> "translate"
      [] step = "translate" -> "log"
      [] step = "log" -> "respond"

\* The call ends with this response.
Finish(r) ==
    /\ response' = r
    /\ pc' = "done"

\* The phase codes with the code of the parse phase pasted into the
\* translate phase.
PhaseErrorCode_Mutant(step) ==
    CASE step = "instantiate" -> "PROVIDER_ERROR"
      [] step = "prepare" -> "REQUEST_PREP_ERROR"
      [] step = "dispatch" -> "PROVIDER_ERROR"
      [] step = "handle_response" -> "RESPONSE_PARSE_ERROR"
      [] step = "translate" -> "RESPONSE_PARSE_ERROR"

\* The error code each phase of proxy_request answers with when it fails.
PhaseErrorCode(step) ==
    CASE step = "instantiate" -> "PROVIDER_ERROR"
      [] step = "prepare" -> "REQUEST_PREP_ERROR"
      [] step = "dispatch" -> "PROVIDER_ERROR"
      [] step = "handle_response" -> "RESPONSE_PARSE_ERROR"
      [] step = "translate" -> "RESPONSE_PROCESS_ERROR"

\* send_request raised and the call is tried once more instead of being
\* answered.
OnTransportError_Mutant(r) ==
    IF Len(sent_stream) < 2
    THEN pc' = "dispatch" /\ response' = response
    ELSE Finish(r)

\* except Exception around send_request: the error is returned at once.
OnTransportError(r) == Finish(r)

\* Full logging taken to be on whatever the settings say.
FullLoggingEnabled_Mutant(s) == TRUE

\* app_settings.get('enable_full_logging', True)
FullLoggingEnabled(s) == s.enable_full_logging

\* A POST to /v1/messages/<t> arrives: the URL map picks the view function,
\* which looks the alias up and calls proxy_request.
HandleMessages(t) ==
    /\ pc \in { "idle", "done" }
    /\ \E call \in ViewCalls(t) :
          /\ provider_name' = call.provider_name
          /\ custom_prompt' = call.custom_prompt
          /\ alias_info' = call.alias_info
    /\ token' = t
    /\ handler' = RouteOf(t).endpoint
    /\ pc' = "rate_check"
    /\ client_ip' = ""
    /\ app_settings' = settings
    /\ body' = NoBody
    /\ data' = NoData
    /\ provider_config' = NoProvider
    /\ provider_instance' = <<>>
    /\ used_template' = FALSE
    /\ stream' = FALSE
    /\ sent_stream' = <<>>
    /\ upstream' = NoUpstream
    /\ log_row' = "none"
    /\ response' = NoResponse
    /\ trace' = <<>>
    /\ UNCHANGED <<fn_vars, store_vars, limiter_vars, thread_vars>>

\* A POST to a path under /v1/messages/ that no URL rule matches: the 404
\* error handler not_found answers.
NotFound(t) ==
    /\ pc \in { "idle", "done" }
    /\ \A i \in DOMAIN UrlRules : ~RuleMatches(UrlRules[i], t)
    /\ token' = t
    /\ handler' = "not_found"
    /\ provider_name' = <<>>
    /\ custom_prompt' = FALSE
    /\ alias_info' = NoAlias
    /\ Finish(ErrorResponse("NOT_FOUND", HTTP_NOT_FOUND, HTTP_NOT_FOUND))
    /\ client_ip' = ""
    /\ app_settings' = settings
    /\ body' = NoBody
    /\ data' = NoData
    /\ provider_config' = NoProvider
    /\ provider_instance' = <<>>
    /\ used_template' = FALSE
    /\ stream' = FALSE
    /\ sent_stream' = <<>>
    /\ upstream' = NoUpstream
    /\ log_row' = "none"
    /\ trace' = <<>>
    /\ UNCHANGED <<fn_vars, store_vars, limiter_vars, thread_vars>>

\* app_settings = get_app_settings(); check_rate_limit(request.remote_addr)
RateCheck ==
    /\ pc = "rate_check"
    /\ app_settings' = settings
    /\ IF settings.rate_limit_enabled
       THEN \E ip \in ClientAddrs :
              /\ client_ip' = ip
              /\ trace' = Append(trace, "rate_check")
              /\ requests' = IsAllowedRequests(ip, now)
              /\ admitted' = IsAllowedAdmitted(ip, now)
              /\ last_call' = CallRecord("is_allowed", ip)
              /\ IF IsAllowedResult(ip, now)
                 THEN pc' = NextStep("rate_check") /\ response' = response
                 ELSE Finish(ProxyRequestExcept(RateLimitError))
       ELSE /\ pc' = NextStep("rate_check")
            /\ UNCHANGED <<client_ip, trace, requests, admitted, last_call, response>>
    /\ UNCHANGED <<fn_vars, store_vars, thread_vars, max_requests, window_seconds, now>>
    /\ UNCHANGED <<token, handler, alias_info, provider_name, custom_prompt, body, data,
                   provider_config, provider_instance, used_template, stream,
                   sent_stream, upstream, log_row>>

\* if not request.is_json ... data = request.json ... if not data
Parse ==
    /\ pc = "parse"
    /\ \E b \in Bodies :
          /\ body' = b
          /\ IF ~b.content_json
             THEN /\ Finish(ErrorResponse("INVALID_REQUEST", HTTP_BAD_REQUEST, HTTP_BAD_REQUEST))
                  /\ data' = data
             ELSE IF ~b.well_formed
             THEN /\ Finish(ProxyRequestExcept(BadRequest))
                  /\ data' = data
             ELSE IF ~Truthy(b.value)
             THEN /\ Finish(ErrorResponse("EMPTY_REQUEST", HTTP_BAD_REQUEST, HTTP_BAD_REQUEST))
                  /\ data' = b.value
             ELSE /\ pc' = NextStep("parse")
                  /\ data' = b.value
                  /\ response' = response
    /\ trace' = Append(trace, "parse")
    /\ UNCHANGED <<fn_vars, store_vars, limiter_vars, thread_vars>>
    /\ UNCHANGED <<token, handler, alias_info, provider_name, custom_prompt, client_ip,
                   app_settings, provider_config, provider_instance, used_template,
                   stream, sent_stream, upstream, log_row>>

\* data = validate_anthropic_request(data)
Validate ==
    /\ pc = "validate"
    /\ trace' = Append(trace, "validate")
    /\ IF ValidateAnthropicRequest(data).ok
       THEN /\ data' = ValidateAnthropicRequest(data).value
            /\ pc' = NextStep("validate")
            /\ response' = response
       ELSE /\ Finish(ErrorResponse("VALIDATION_ERROR", HTTP_BAD_REQUEST, HTTP_BAD_REQUEST))
            /\ data' = data
    /\ UNCHANGED <<fn_vars, store_vars, limiter_vars, thread_vars>>
    /\ UNCHANGED <<token, handler, alias_info, provider_name, custom_prompt, client_ip,
                   app_settings, body, provider_config, provider_instance, used_template,
                   stream, sent_stream, upstream, log_row>>

\* provider_config = provider_loader.get_provider_by_name(provider_name)
Resolve ==
    /\ pc = "resolve"
    /\ trace' = Append(trace, "resolve")
    /\ \E config \in GetProviderByName(provider_name) :
          /\ provider_config' = config
          /\ IF config = NoProvider
             THEN Finish(ErrorResponse("PROVIDER_NOT_FOUND", HTTP_NOT_FOUND, HTTP_NOT_FOUND))
             ELSE pc' = NextStep("resolve") /\ response' = response
    /\ UNCHANGED <<fn_vars, store_vars, limiter_vars, thread_vars>>
    /\ UNCHANGED <<token, handler, alias_info, provider_name, custom_prompt, client_ip,
                   app_settings, body, data, provider_instance, used_template,
                   stream, sent_stream, upstream, log_row>>

\* provider_instance = provider_loader.create_provider_instance(provider_config)
Instantiate ==
    /\ pc = "instantiate"
    /\ trace' = Append(trace, "instantiate")
    /\ provider_instance' = CreateProviderInstance(provider_config)
    /\ IF CreateProviderInstance(provider_config) = <<>>
       THEN Finish(ErrorResponse(PhaseErrorCode("instantiate"), HTTP_SERVER_ERROR,
                                 HTTP_SERVER_ERROR))
       ELSE pc' = NextStep("instantiate") /\ response' = response
    /\ UNCHANGED <<fn_vars, store_vars, limiter_vars, thread_vars>>
    /\ UNCHANGED <<token, handler, alias_info, provider_name, custom_prompt, client_ip,
                   app_settings, body, data, provider_config, used_template,
                   stream, sent_stream, upstream, log_row>>

\* prompt_config = get_prompt_config() if custom_prompt;
\* provider_request = provider_instance.prepare_request(...)
Prepare ==
    /\ pc = "prepare"
    /\ trace' = Append(trace, "prepare")
    /\ used_template' = (custom_prompt /\ prompt_config.use_custom_prompt)
    /\ \E raised \in BOOLEAN :
          IF raised
          THEN Finish(ErrorResponse(PhaseErrorCode("prepare"), HTTP_SERVER_ERROR,
                                    HTTP_SERVER_ERROR))
          ELSE pc' = NextStep("prepare") /\ response' = response
    /\ UNCHANGED <<fn_vars, store_vars, limiter_vars, thread_vars>>
    /\ UNCHANGED <<token, handler, alias_info, provider_name, custom_prompt, client_ip,
                   app_settings, body, data, provider_config, provider_instance,
                   stream, sent_stream, upstream, log_row>>

\* stream = data.get('stream', False);
\* response = provider_instance.send_request(provider_request, stream=stream);
\* a status other than 200 is relayed as it is.
Dispatch ==
    /\ pc = "dispatch"
    /\ trace' = Append(trace, "dispatch")
    /\ stream' = (Get(data.fields, "stream", "false") = "true")
    /\ sent_stream' = Append(sent_stream, stream')
    /\ \/ /\ OnTransportError(ErrorResponse(PhaseErrorCode("dispatch"), HTTP_SERVER_ERROR,
                                            HTTP_SERVER_ERROR))
          /\ upstream' = upstream
       \/ \E u \in UpstreamResponses :
             /\ upstream' = u
             /\ IF u.status_code # HTTP_OK
                THEN Finish([kind |-> "upstream", status |-> u.status_code, code |-> "",
                             body_status |-> 0, content_type |-> RelayContentType(u),
                             body |-> u.chunks])
                ELSE pc' = NextStep("dispatch") /\ response' = response
    /\ UNCHANGED <<fn_vars, store_vars, limiter_vars, thread_vars>>
    /\ UNCHANGED <<token, handler, alias_info, provider_name, custom_prompt, client_ip,
                   app_settings, body, data, provider_config, provider_instance,
                   used_template, log_row>>

\* if stream: return Response(generate(), ...)   else: response.json()
HandleResponse ==
    /\ pc = "handle_response"
    /\ IF stream
       THEN /\ trace' = Append(trace, "stream_relay")
            /\ \E broken_after \in 0..(Len(upstream.chunks) + 1) :
                  Finish([kind |-> "stream", status |-> upstream.status_code, code |-> "",
                          body_status |-> 0, content_type |-> RelayContentType(upstream),
                          body |-> Generate(upstream.chunks, broken_after)])
       ELSE /\ trace' = Append(trace, "parse_upstream")
            /\ IF upstream.json_ok
               THEN pc' = NextStep("handle_response") /\ response' = response
               ELSE Finish(ErrorResponse(PhaseErrorCode("handle_response"),
                                         HTTP_SERVER_ERROR, HTTP_SERVER_ERROR))
    /\ UNCHANGED <<fn_vars, store_vars, limiter_vars, thread_vars>>
    /\ UNCHANGED <<token, handler, alias_info, provider_name, custom_prompt, client_ip,
                   app_settings, body, data, provider_config, provider_instance,
                   used_template, stream, sent_stream, upstream, log_row>>

\* anthropic_response = provider_instance.process_response(provider_response)
Translate ==
    /\ pc = "translate"
    /\ trace' = Append(trace, "translate")
    /\ \E raised \in BOOLEAN :
          IF raised
          THEN Finish(ErrorResponse(PhaseErrorCode("translate"), HTTP_SERVER_ERROR,
                                    HTTP_SERVER_ERROR))
          ELSE pc' = NextStep("translate") /\ response' = response
    /\ UNCHANGED <<fn_vars, store_vars, limiter_vars, thread_vars>>
    /\ UNCHANGED <<token, handler, alias_info, provider_name, custom_prompt, client_ip,
                   app_settings, body, data, provider_config, provider_instance,
                   used_template, stream, sent_stream, upstream, log_row>>

\* if app_settings.get('enable_full_logging', True): try: db_utils.log_request(...)
Log ==
    /\ pc = "log"
    /\ IF FullLoggingEnabled(app_settings)
       THEN /\ trace' = Append(trace, "log")
            /\ \E failed \in BOOLEAN :
                  log_row' = IF failed THEN "failed" ELSE "written"
       ELSE UNCHANGED <<trace, log_row>>
    /\ pc' = NextStep("log")
    /\ UNCHANGED <<fn_vars, store_vars, limiter_vars, thread_vars>>
    /\ UNCHANGED <<token, handler, alias_info, provider_name, custom_prompt, client_ip,
                   app_settings, body, data, provider_config, provider_instance,
                   used_template, stream, sent_stream, upstream, response>>

\* return Response(json.dumps(anthropic_response), 'application/json', 200)
Respond ==
    /\ pc = "respond"
    /\ trace' = Append(trace, "respond")
    /\ Finish([kind |-> "json", status |-> HTTP_OK, code |-> "", body_status |-> 0,
               content_type |-> "application/json", body |-> <<"anthropic_response">>])
    /\ UNCHANGED <<fn_vars, store_vars, limiter_vars, thread_vars>>
    /\ UNCHANGED <<token, handler, alias_info, provider_name, custom_prompt, client_ip,
                   app_settings, body, data, provider_config, provider_instance,
                   used_template, stream, sent_stream, upstream, log_row>>

Next ==
    \/ \E t \in Tokens : HandleMessages(t)
    \/ \E t \in UnmatchedPaths : NotFound(t)
    \/ RateCheck
    \/ Parse
    \/ Validate
    \/ Resolve
    \/ Instantiate
    \/ Prepare
    \/ Dispatch
    \/ HandleResponse
    \/ Translate
    \/ Log
    \/ Respond

Spec == Init /\ [][Next]_vars

SpecRoute == InitRoute /\ [][Next]_vars

\* ------------------------------------------------- the rate limiter by itself
InitRL ==
    /\ providers = PipelineProviders
    /\ SeededRows
    /\ fn = NoFn
    /\ aliases = {}
    /\ provider_keys = DiscoveredKeys
    /\ settings = [rate_limit_enabled |-> TRUE, enable_full_logging |-> TRUE]
    /\ rate_limit_settings = DefaultRateLimitSettings
    /\ prompt_config = [use_custom_prompt |-> FALSE]
    /\ InitCall /\ InitThreads
    /\ max_requests \in 1..MaxLimit
    /\ window_seconds \in 1..MaxWindow
    /\ requests = [i \in Identifiers |-> <<>>]
    /\ now = 0
    /\ admitted = [i \in Identifiers |-> <<>>]
    /\ last_call = NoCall

\* rate_limiter.is_allowed(identifier)
IsAllowed(identifier) ==
    /\ requests' = IsAllowedRequests(identifier, now)
    /\ admitted' = IsAllowedAdmitted(identifier, now)
    /\ last_call' = CallRecord("is_allowed", identifier)
    /\ UNCHANGED <<fn_vars, store_vars, thread_vars, call_vars, max_requests, window_seconds, now>>

\* rate_limiter.get_remaining_requests(identifier)
GetRemainingRequests(identifier) ==
    /\ requests' = [requests EXCEPT ![identifier] = Prune(requests[identifier], now)]
    /\ last_call' = CallRecord("get_remaining_requests", identifier)
    /\ UNCHANGED <<fn_vars, store_vars, thread_vars, call_vars, max_requests, window_seconds, now, admitted>>

\* One second passes.
Tick ==
    /\ now < MaxTime
    /\ now' = now + 1
    /\ UNCHANGED <<fn_vars, store_vars, thread_vars, call_vars, max_requests, window_seconds, requests,
                   admitted, last_call>>

NextRL ==
    \/ \E i \in Identifiers : IsAllowed(i)
    \/ \E i \in Identifiers : GetRemainingRequests(i)
    \/ Tick

SpecRL == InitRL /\ [][NextRL]_vars

\* ------------------------------------------- is_allowed, statement by statement
\* The mutant's lock: it never makes a worker wait.
LockFree_Mutant == TRUE

\* with self.lock: a worker enters when no worker holds the lock.
LockFree == lock = 0

\* A worker thread calls rate_limiter.is_allowed(identifier) and arrives at
\* "with self.lock".
CallIsAllowed(w, identifier) ==
    /\ workers[w].pc = "idle"
    /\ workers' = [workers EXCEPT ![w] = [NoWorker EXCEPT !.pc = "lock",
                                                           !.identifier = identifier]]
    /\ UNCHANGED <<fn_vars, store_vars, call_vars, limiter_vars, lock>>

\* with self.lock: (acquire)
Acquire(w) ==
    /\ workers[w].pc = "lock"
    /\ LockFree
    /\ lock' = w
    /\ workers' = [workers EXCEPT ![w].pc = "clock"]
    /\ UNCHANGED <<fn_vars, store_vars, call_vars, limiter_vars>>

\* now = time.time()
ReadClock(w) ==
    /\ workers[w].pc = "clock"
    /\ workers' = [workers EXCEPT ![w].pc = "prune_read", ![w].now = now]
    /\ UNCHANGED <<fn_vars, store_vars, call_vars, limiter_vars, lock>>

\* [timestamp for timestamp in self.requests[identifier] if ...]
PruneRead(w) ==
    /\ workers[w].pc = "prune_read"
    /\ workers' = [workers EXCEPT
                     ![w].pc = "prune_write",
                     ![w].kept = Prune(requests[workers[w].identifier], workers[w].now)]
    /\ UNCHANGED <<fn_vars, store_vars, call_vars, limiter_vars, lock>>

\* self.requests[identifier] = <the list just built>
PruneWrite(w) ==
    /\ workers[w].pc = "prune_write"
    /\ requests' = [requests EXCEPT ![workers[w].identifier] = workers[w].kept]
    /\ workers' = [workers EXCEPT ![w].pc = "check", ![w].kept = << >>]
    /\ UNCHANGED <<fn_vars, store_vars, call_vars, max_requests, window_seconds, now,
                   admitted, last_call, lock>>

\* if len(self.requests[identifier]) < self.max_requests: ... else: return False
CheckLimit(w) ==
    /\ workers[w].pc = "check"
    /\ workers' = [workers EXCEPT
                     ![w].pc = IF Len(requests[workers[w].identifier]) < max_requests
                               THEN "append" ELSE "return"]
    /\ UNCHANGED <<fn_vars, store_vars, call_vars, limiter_vars, lock>>

\* self.requests[identifier].append(now); return True
AppendNow(w) ==
    /\ workers[w].pc = "append"
    /\ requests' = [requests EXCEPT ![workers[w].identifier] = Append(@, workers[w].now)]
    /\ admitted' = [admitted EXCEPT ![workers[w].identifier] = Append(@, workers[w].now)]
    /\ workers' = [workers EXCEPT ![w].pc = "return", ![w].allowed = TRUE]
    /\ UNCHANGED <<fn_vars, store_vars, call_vars, max_requests, window_seconds, now,
                   last_call, lock>>

\* The with block is left: the lock is released and the call returns.
Return(w) ==
    /\ workers[w].pc = "return"
    /\ lock' = 0
    /\ workers' = [workers EXCEPT ![w] = NoWorker]
    /\ UNCHANGED <<fn_vars, store_vars, call_vars, limiter_vars>>

NextThreads ==
    \/ \E w \in Workers, i \in Identifiers : CallIsAllowed(w, i)
    \/ \E w \in Workers : Acquire(w)
    \/ \E w \in Workers : ReadClock(w)
    \/ \E w \in Workers : PruneRead(w)
    \/ \E w \in Workers : PruneWrite(w)
    \/ \E w \in Workers : CheckLimit(w)
    \/ \E w \in Workers : AppendNow(w)
    \/ \E w \in Workers : Return(w)
    \/ Tick

SpecThreads == InitRL /\ [][NextThreads]_vars

\* ------------------------------------------- the helper functions by themselves
\* The registry holds the adapters whose modules could be imported; the two
\* stored providers have any model mapping.
InitFn ==
    /\ providers = PipelineProviders
    /\ provider_columns \in
          { [i \in DOMAIN m |-> [DefaultColumns EXCEPT !.model_mapping = JsonDumps(m[i])]] :
              m \in [{ p.id : p \in PipelineProviders } -> Mappings] }
    /\ provider_headers = {}
    /\ sqlite_sequence = Cardinality(providers)
    /\ admin = NoAdmin
    /\ fn = NoFn
    /\ aliases = {}
    /\ provider_keys \in SUBSET DiscoveredKeys
    /\ settings = [rate_limit_enabled |-> FALSE, enable_full_logging |-> FALSE]
    /\ rate_limit_settings = DefaultRateLimitSettings
    /\ prompt_config = [use_custom_prompt |-> FALSE]
    /\ InitRouteLimiter
    /\ InitCall /\ InitThreads

\* The helpers change no state, so one call from each state of the store
\* shows all they do.
\* provider_registry.normalize_provider_name(name)
CallNormalizeProviderName(name) ==
    /\ fn = NoFn
    /\ fn' = [NoFn EXCEPT !.op = "normalize_provider_name", !.name = name,
                          !.out_name = NormalizeProviderName(name)]
    /\ UNCHANGED <<admin, store_vars, limiter_vars, call_vars, thread_vars>>

\* provider_loader.get_model_mapping(name, model_name)
CallGetModelMapping(name, model_name) ==
    /\ fn = NoFn
    /\ \E result \in GetModelMapping(name, model_name) :
          fn' = [NoFn EXCEPT !.op = "get_model_mapping", !.name = name,
                            !.model = model_name, !.out_model = result]
    /\ UNCHANGED <<admin, store_vars, limiter_vars, call_vars, thread_vars>>

\* provider_instance.get_auth_headers()
CallGetAuthHeaders(auth_method, api_key) ==
    /\ fn = NoFn
    /\ fn' = [NoFn EXCEPT !.op = "get_auth_headers", !.auth_method = auth_method,
                          !.api_key = api_key,
                          !.out_headers = GetAuthHeaders(auth_method, api_key)]
    /\ UNCHANGED <<admin, store_vars, limiter_vars, call_vars, thread_vars>>

\* provider_instance.prepare_request(anthropic_request)
CallPrepareRequest(anthropic_request) ==
    /\ fn = NoFn
    /\ fn' = [NoFn EXCEPT !.op = "prepare_request", !.request = anthropic_request,
                          !.out_request = PrepareRequest(anthropic_request).request_data,
                          !.request_after =
                              PrepareRequest(anthropic_request).anthropic_request]
    /\ UNCHANGED <<admin, store_vars, limiter_vars, call_vars, thread_vars>>

NextFn ==
    \/ \E anthropic_request \in CanonicalRequests : CallPrepareRequest(anthropic_request)
    \/ \E name \in LookupNames : CallNormalizeProviderName(name)
    \/ \E name \in LookupNames, model_name \in ModelNames :
          CallGetModelMapping(name, model_name)
    \/ \E auth_method \in AuthMethods, api_key \in ApiKeys :
          CallGetAuthHeaders(auth_method, api_key)

SpecFn == InitFn /\ [][NextFn]_vars

\* ----------------------------------- the pipeline over every registry content
\* discover_providers registers the adapters whose modules it finds and can
\* import: any subset of them, none when the providers directory is missing.
InitRegStore ==
    /\ providers = PipelineProviders
    /\ SeededRows
    /\ fn = NoFn
    /\ aliases = {}
    /\ provider_keys \in SUBSET DiscoveredKeys
    /\ settings = [rate_limit_enabled |-> FALSE, enable_full_logging |-> FALSE]
    /\ rate_limit_settings = DefaultRateLimitSettings
    /\ prompt_config = [use_custom_prompt |-> FALSE]

InitReg == InitRegStore /\ InitRouteLimiter /\ InitCall /\ InitThreads

SpecReg == InitReg /\ [][Next]_vars

\* ---------------------------------------------- the validator by itself
InitVal ==
    /\ providers = PipelineProviders
    /\ SeededRows
    /\ fn = NoFn
    /\ aliases = {}
    /\ provider_keys = DiscoveredKeys
    /\ settings = [rate_limit_enabled |-> FALSE, enable_full_logging |-> FALSE]
    /\ rate_limit_settings = DefaultRateLimitSettings
    /\ prompt_config = [use_custom_prompt |-> FALSE]
    /\ InitRouteLimiter
    /\ InitCall /\ InitThreads

\* validate_anthropic_request(request_data)
CallValidateAnthropicRequest(request_data) ==
    /\ fn = NoFn
    /\ fn' = [NoFn EXCEPT !.op = "validate_anthropic_request",
                          !.request_data = request_data,
                          !.validated = ValidateAnthropicRequest(request_data)]
    /\ UNCHANGED <<admin, store_vars, limiter_vars, call_vars, thread_vars>>

NextVal ==
    \E request_data \in ValidationRequests : CallValidateAnthropicRequest(request_data)

SpecVal == InitVal /\ [][NextVal]_vars

\* -------------------------------------------------------- the admin pages
\* What the admin enters in the provider form: the name, the active box, the
\* custom headers, the model mapping and the dialect tag (api_standard).
HeaderForms ==
    { EmptyDict,
      SetItem(EmptyDict, << "X-Title" >>, << "a" >>),
      SetItem(EmptyDict, << "X-Title" >>, << "a", ",", "b" >>),
      SetItem(EmptyDict, << "X-Title" >>, << "a", ":", "b" >>),
      SetItem(SetItem(EmptyDict, << "X-Title" >>, << "a" >>), << "X-Id" >>, << "b" >>) }

FormContents ==
    { [headers |-> h, model_mapping |-> EmptyDict, api_standard |-> "openai"] :
        h \in HeaderForms } \cup
    { [headers |-> EmptyDict, model_mapping |-> [k \in { << "claude" >> } |-> TargetModel(k)],
       api_standard |-> "anthropic"] }

FormNames == { << "OpenRouter" >>, << "fast" >> }

ProviderForms ==
    { [name |-> n, is_active |-> a, headers |-> c.headers,
       model_mapping |-> c.model_mapping, api_standard |-> c.api_standard] :
        n \in FormNames, a \in BOOLEAN, c \in FormContents }

\* The columns an INSERT or UPDATE of the admin writes.
ColumnsOfForm(form) ==
    [is_active |-> form.is_active, model_mapping |-> JsonDumps(form.model_mapping),
     api_standard |-> Text(form.api_standard), supported_models |-> JsonDumps(EmptyDict)]

\* The provider_headers rows the admin inserts for a provider.
HeaderRowsOfForm(provider_id, form) ==
    { [provider_id |-> provider_id, header_key |-> key, header_value |-> form.headers[key]] :
        key \in DOMAIN form.headers }

\* A row of the admin history.
AdminRecord(op, provider_id, ok, referenced) ==
    [NoAdmin EXCEPT !.op = op, !.provider_id = provider_id, !.ok = ok,
                    !.referenced = referenced, !.last_alias = admin.last_alias]

\* The store begins empty.
InitAdmin ==
    /\ providers = {}
    /\ SeededRows
    /\ fn = NoFn
    /\ aliases = {}
    /\ provider_keys = DiscoveredKeys
    /\ settings = [rate_limit_enabled |-> FALSE, enable_full_logging |-> FALSE]
    /\ rate_limit_settings = DefaultRateLimitSettings
    /\ prompt_config = [use_custom_prompt |-> FALSE]
    /\ InitRouteLimiter
    /\ InitCall /\ InitThreads

\* provider_new, POST: INSERT INTO providers, then the header rows.  A name
\* that is taken violates UNIQUE: the exception is caught and nothing is
\* committed.
ProviderNew(form) ==
    /\ sqlite_sequence < MaxProviders
    /\ IF \E p \in providers : p.name = form.name
       THEN /\ admin' = AdminRecord("provider_new", 0, FALSE, FALSE)
            /\ UNCHANGED <<providers, provider_columns, provider_headers, sqlite_sequence>>
       ELSE LET provider_id == sqlite_sequence + 1
            IN /\ providers' = providers \cup { [id |-> provider_id, name |-> form.name] }
               /\ provider_columns' =
                      [i \in DOMAIN provider_columns \cup { provider_id } |->
                          IF i = provider_id THEN ColumnsOfForm(form)
                          ELSE provider_columns[i]]
               /\ provider_headers' =
                      provider_headers \cup HeaderRowsOfForm(provider_id, form)
               /\ sqlite_sequence' = provider_id
               /\ admin' = AdminRecord("provider_new", provider_id, TRUE, FALSE)
    /\ UNCHANGED <<fn, aliases, provider_keys, settings, rate_limit_settings, prompt_config>>
    /\ UNCHANGED <<limiter_vars, call_vars, thread_vars>>

\* provider_edit, POST: UPDATE providers SET ... WHERE id = ?, then the header
\* rows are replaced.  An unknown id is answered before anything is written.
ProviderEdit(provider_id, form) ==
    /\ \E p \in providers : p.id = provider_id
    /\ IF \E p \in providers : p.id # provider_id /\ p.name = form.name
       THEN /\ admin' = AdminRecord("provider_edit", provider_id, FALSE, FALSE)
            /\ UNCHANGED <<providers, provider_columns, provider_headers>>
       ELSE /\ providers' = { p \in providers : p.id # provider_id } \cup
                             { [id |-> provider_id, name |-> form.name] }
            /\ provider_columns' =
                   [provider_columns EXCEPT ![provider_id] = ColumnsOfForm(form)]
            /\ provider_headers' =
                   { ph \in provider_headers : ph.provider_id # provider_id } \cup
                   HeaderRowsOfForm(provider_id, form)
            /\ admin' = AdminRecord("provider_edit", provider_id, TRUE, FALSE)
    /\ UNCHANGED <<fn, aliases, provider_keys, settings, rate_limit_settings, prompt_config, sqlite_sequence>>
    /\ UNCHANGED <<limiter_vars, call_vars, thread_vars>>

\* provider_delete: DELETE FROM provider_headers, DELETE FROM providers; the
\* alias rows of the provider go with it (ON DELETE CASCADE, foreign keys on).
ProviderDelete(provider_id) ==
    /\ provider_headers' = { ph \in provider_headers : ph.provider_id # provider_id }
    /\ providers' = { p \in providers : p.id # provider_id }
    /\ provider_columns' =
           [i \in DOMAIN provider_columns \ { provider_id } |-> provider_columns[i]]
    /\ aliases' = { a \in aliases : a.provider_id # provider_id }
    /\ admin' = [AdminRecord("provider_delete", provider_id,
                             \E p \in providers : p.id = provider_id,
                             \E a \in aliases : a.provider_id = provider_id)
                   EXCEPT !.last_alias =
                       [pair \in AliasPairs |->
                           IF pair[1] = provider_id THEN << >> ELSE admin.last_alias[pair]]]
    /\ UNCHANGED <<fn, provider_keys, settings, rate_limit_settings, prompt_config, sqlite_sequence>>
    /\ UNCHANGED <<limiter_vars, call_vars, thread_vars>>

\* provider_activate: UPDATE providers SET is_active = 0, then
\* UPDATE providers SET is_active = 1 WHERE id = ?
ProviderActivate(provider_id) ==
    /\ provider_columns' =
           [i \in DOMAIN provider_columns |->
               [provider_columns[i] EXCEPT !.is_active = (i = provider_id)]]
    /\ admin' = AdminRecord("provider_activate", provider_id,
                            \E p \in providers : p.id = provider_id, FALSE)
    /\ UNCHANGED <<fn, providers, aliases, provider_keys, settings, rate_limit_settings, prompt_config,
                   provider_headers, sqlite_sequence>>
    /\ UNCHANGED <<limiter_vars, call_vars, thread_vars>>

NextAdmin ==
    \/ \E form \in ProviderForms : ProviderNew(form)
    \/ \E provider_id \in 1..MaxProviders, form \in ProviderForms :
          ProviderEdit(provider_id, form)
    \/ \E provider_id \in 1..MaxProviders : ProviderDelete(provider_id)
    \/ \E provider_id \in 1..MaxProviders : ProviderActivate(provider_id)

SpecAdmin == InitAdmin /\ [][NextAdmin]_vars

\* ============================================================ admin: settings
\* The values the settings form is posted with.
RateLimitRequestsValues == { 1, DefaultMaxRequests }
RateLimitWindowValues == { 60, DefaultWindowSeconds }
SettingsForms ==
    [rate_limit_enabled : BOOLEAN, enable_full_logging : { TRUE },
     rate_limit_requests : RateLimitRequestsValues,
     rate_limit_window : RateLimitWindowValues]

\* settings (POST): update_app_settings(new_settings) writes the columns of
\* the app_settings row; nothing else is touched.
SettingsSave(form) ==
    /\ settings' = [rate_limit_enabled |-> form.rate_limit_enabled,
                    enable_full_logging |-> form.enable_full_logging]
    /\ rate_limit_settings' = [rate_limit_requests |-> form.rate_limit_requests,
                               rate_limit_window |-> form.rate_limit_window]
    /\ admin' = AdminRecord("settings", 0, TRUE, FALSE)
    /\ UNCHANGED <<fn, providers, aliases, provider_keys, prompt_config,
                   provider_columns, provider_headers, sqlite_sequence>>
    /\ UNCHANGED <<limiter_vars, call_vars, thread_vars>>

\* The module-level rate_limiter = RateLimiter() and a store whose settings
\* row has the declared defaults.
InitSettings ==
    /\ providers = PipelineProviders
    /\ SeededRows
    /\ fn = NoFn
    /\ aliases = {}
    /\ provider_keys = DiscoveredKeys
    /\ settings = [rate_limit_enabled |-> TRUE, enable_full_logging |-> TRUE]
    /\ rate_limit_settings = DefaultRateLimitSettings
    /\ prompt_config = [use_custom_prompt |-> FALSE]
    /\ max_requests = DefaultMaxRequests
    /\ window_seconds = DefaultWindowSeconds
    /\ requests = [i \in Identifiers |-> <<>>]
    /\ now = 0
    /\ admitted = [i \in Identifiers |-> <<>>]
    /\ last_call = NoCall
    /\ InitCall /\ InitThreads

\* A new request is taken while no address has MaxAdmitted admissions yet.
AdmissionsLeft ==
    pc \in { "idle", "done" } => \A ip \in ClientAddrs : Len(admitted[ip]) < MaxAdmitted

NextSettings ==
    \/ AdmissionsLeft /\ Next
    \/ \E form \in SettingsForms : SettingsSave(form)

SpecSettings == InitSettings /\ [][NextSettings]_vars

\* =========================================================== command aliases
\* What get_alias returns when no row matches (None).
NoToken == << >>

\* INSERT OR REPLACE INTO command_aliases with the mutant's conflict handling:
\* the row is added and the row of the same (provider, kind) is kept.
InsertOrReplace_Mutant(rows, row) == rows \cup { row }

\* INSERT OR REPLACE INTO command_aliases (provider_id, alias_type,
\* command_alias, is_active, ...): the row that conflicts on
\* UNIQUE(provider_id, alias_type) is deleted, the new row is inserted.
InsertOrReplace(rows, row) ==
    { a \in rows : ~(a.provider_id = row.provider_id /\ a.alias_type = row.alias_type) }
        \cup { row }

\* set_alias: the insert fails on the foreign key when the provider does not
\* exist (foreign keys are on), and set_alias then returns False.
SetAlias(provider_id, alias_type, command_alias) ==
    LET exists == \E p \in providers : p.id = provider_id
    IN /\ aliases' =
              IF exists
              THEN InsertOrReplace(aliases,
                       [provider_id |-> provider_id, alias_type |-> alias_type,
                        command_alias |-> command_alias, is_active |-> TRUE])
              ELSE aliases
       /\ admin' = [AdminRecord("set_alias", provider_id, exists,
                                \E a \in aliases : /\ a.provider_id = provider_id
                                                   /\ a.alias_type = alias_type
                                                   /\ a.command_alias # command_alias)
                      EXCEPT !.alias_type = alias_type,
                             !.command_alias = command_alias,
                             !.last_alias =
                                 IF exists
                                 THEN [admin.last_alias
                                         EXCEPT ![<<provider_id, alias_type>>] = command_alias]
                                 ELSE admin.last_alias]
       /\ UNCHANGED <<fn, providers, provider_keys, settings, rate_limit_settings, prompt_config,
                      provider_columns, provider_headers, sqlite_sequence>>
       /\ UNCHANGED <<limiter_vars, call_vars, thread_vars>>

\* remove_alias: DELETE FROM command_aliases WHERE provider_id = ? AND
\* alias_type = ?; returns rowcount > 0.
RemoveAlias(provider_id, alias_type) ==
    LET rows == { a \in aliases : a.provider_id = provider_id /\ a.alias_type = alias_type }
    IN /\ aliases' = aliases \ rows
       /\ admin' = [AdminRecord("remove_alias", provider_id, rows # {}, FALSE)
                      EXCEPT !.alias_type = alias_type,
                             !.last_alias =
                                 [admin.last_alias
                                    EXCEPT ![<<provider_id, alias_type>>] = NoToken]]
       /\ UNCHANGED <<fn, providers, provider_keys, settings, rate_limit_settings, prompt_config,
                      provider_columns, provider_headers, sqlite_sequence>>
       /\ UNCHANGED <<limiter_vars, call_vars, thread_vars>>

\* get_alias: SELECT command_alias ... WHERE provider_id = ? AND
\* alias_type = ? AND is_active = 1; fetchone takes any matching row.
GetAlias(provider_id, alias_type) ==
    LET rows == { a \in aliases : /\ a.provider_id = provider_id
                                  /\ a.alias_type = alias_type
                                  /\ a.is_active }
    IN IF rows = {} THEN { NoToken } ELSE { a.command_alias : a \in rows }

\* The alias manager and the admin's delete, on the two seeded providers.
InitAlias ==
    /\ providers = PipelineProviders
    /\ SeededRows
    /\ fn = NoFn
    /\ aliases = {}
    /\ provider_keys = DiscoveredKeys
    /\ settings = [rate_limit_enabled |-> FALSE, enable_full_logging |-> FALSE]
    /\ rate_limit_settings = DefaultRateLimitSettings
    /\ prompt_config = [use_custom_prompt |-> FALSE]
    /\ InitRouteLimiter
    /\ InitCall /\ InitThreads

NextAlias ==
    \/ \E provider_id \in 1..MaxProviders, alias_type \in AliasTypes,
          command_alias \in AliasTokens :
          SetAlias(provider_id, alias_type, command_alias)
    \/ \E provider_id \in 1..MaxProviders, alias_type \in AliasTypes :
          RemoveAlias(provider_id, alias_type)
    \/ \E provider_id \in 1..MaxProviders : ProviderDelete(provider_id)

SpecAlias == InitAlias /\ [][NextAlias]_vars

\* =================================================================== claims
Rank(step) ==
    CASE step = "rate_check" -> 1
      [] step = "parse" -> 2
      [] step = "validate" -> 3
      [] step = "resolve" -> 4
      [] step = "instantiate" -> 5
      [] step = "prepare" -> 6
      [] step = "dispatch" -> 7
      [] step = "stream_relay" -> 8
      [] step = "parse_upstream" -> 8
      [] step = "translate" -> 9
      [] step = "log" -> 10
      [] step = "respond" -> 11

\* rate_check and log run only when the settings enable them; every other
\* step below a step that was entered must have been entered before it.
Mandatory == { "parse", "validate", "resolve", "instantiate", "prepare", "dispatch",
               "translate" }

TraceInOrder ==
    /\ \A i \in 1..(Len(trace) - 1) : Rank(trace[i]) < Rank(trace[i + 1])
    /\ \A i \in 1..Len(trace) : \A m \in Mandatory :
          Rank(m) < Rank(trace[i]) => \E j \in 1..(i - 1) : trace[j] = m
    /\ \A i \in 1..Len(trace) :
          Rank(trace[i]) > 8 => \E j \in 1..(i - 1) : trace[j] = "parse_upstream"

\* The steps at which each error code is produced.
StepsOfCode(code) ==
    CASE code = "INTERNAL_ERROR" -> { "rate_check", "parse" }
      [] code = "INVALID_REQUEST" -> { "parse" }
      [] code = "EMPTY_REQUEST" -> { "parse" }
      [] code = "VALIDATION_ERROR" -> { "validate" }
      [] code = "PROVIDER_NOT_FOUND" -> { "resolve" }
      [] code = "PROVIDER_ERROR" -> { "instantiate", "dispatch" }
      [] code = "REQUEST_PREP_ERROR" -> { "prepare" }
      [] code = "RESPONSE_PARSE_ERROR" -> { "parse_upstream" }
      [] code = "RESPONSE_PROCESS_ERROR" -> { "translate" }
      [] OTHER -> {}

\* A run of proxy_request has failed (the answer of the 404 handler belongs
\* to no run of proxy_request).
Failed == handler # "not_found" /\ response.kind \in { "error", "upstream" }

\* A failed step is the last step of the run.
FailureEndsRun ==
    Failed =>
        /\ pc = "done"
        /\ trace # <<>>
        /\ response.kind = "error" => trace[Len(trace)] \in StepsOfCode(response.code)
        /\ response.kind = "upstream" => trace[Len(trace)] = "dispatch"
        /\ response.status # HTTP_OK

\* C1 as claimed: the steps of proxy_request run in the order rate check,
\* parse, validate, resolve, instantiate, prepare, dispatch, (stream relay |
\* parse upstream, translate), log, respond; a step is entered only after the
\* earlier ones succeeded, and a failure at ANY step, the log step included,
\* ends the run in an error response with no later step.
C1_AsClaimed ==
    /\ TraceInOrder
    /\ FailureEndsRun
    /\ log_row = "failed" => (Failed /\ trace[Len(trace)] = "log")

\* C1 as amended: the same order (rate check and log only when the settings
\* enable them, log and respond only after parse upstream and translate); a
\* failure at any step other than log ends the run in an error response with
\* no later step; a failure of the log step is ignored: respond follows and
\* the caller gets the 200 response.
C1_StepOrder ==
    /\ TraceInOrder
    /\ FailureEndsRun
    /\ (\E i \in 1..Len(trace) : trace[i] = "stream_relay") =>
          trace[Len(trace)] = "stream_relay"
    /\ response.kind = "json" =>
          /\ pc = "done"
          /\ trace[Len(trace)] = "respond"
          /\ response.status = HTTP_OK
    /\ (log_row = "failed" /\ pc = "done") => response.kind = "json"

\* C1 witness: a run whose log step failed and that still answered 200 after
\* going through every step.
C1_Witness ==
    /\ pc = "done"
    /\ log_row = "failed"
    /\ response.kind = "json"
    /\ trace = << "rate_check", "parse", "validate", "resolve", "instantiate",
                  "prepare", "dispatch", "parse_upstream", "translate", "log",
                  "respond" >>

\* The streaming flag the caller put into the body.
InboundStream == Get(body.value.fields, "stream", "false") = "true"

Entered(step) == \E i \in 1..Len(trace) : trace[i] = step

\* C2: when the inbound request carries stream = true and the upstream
\* answers 200, send_request is called with stream=True and the caller gets
\* the stream relay with the upstream's content type; the upstream body is
\* parsed and translated only when the flag is absent or false.
C2_StreamBranch ==
    /\ (InboundStream /\ Entered("dispatch")) => sent_stream = << TRUE >>
    /\ (InboundStream /\ upstream.status_code = HTTP_OK /\ pc = "done") =>
          /\ response.kind = "stream"
          /\ response.content_type = upstream.content_type
    /\ Entered("parse_upstream") => ~InboundStream

\* C3: when a stream was asked for and the upstream sends N chunks with
\* status 200 and closes, the caller receives exactly those N chunks, in
\* order, nothing added, dropped or duplicated.  (An upstream that breaks
\* instead of closing is outside the statement: the relay marks it with a
\* final STREAMING_ERROR chunk.)
C3_StreamRelay ==
    (InboundStream /\ upstream.status_code = HTTP_OK /\ pc = "done") =>
        /\ response.kind = "stream"
        /\ \/ response.body = upstream.chunks
           \/ /\ response.body # <<>>
              /\ response.body[Len(response.body)] = StreamingErrorChunk

\* C4: a call the limiter rejects is answered 429 RATE_LIMIT_ERROR before
\* the body is parsed or validated; with rate limiting disabled the limiter
\* is not consulted.
C4_RateLimited ==
    /\ (pc = "done" /\ trace = << "rate_check" >>) =>
          /\ response.kind = "error"
          /\ response.status = HTTP_TOO_MANY
          /\ response.code = "RATE_LIMIT_ERROR"
          /\ body = NoBody
          /\ data = NoData
    /\ (pc \notin { "idle", "rate_check" } /\ ~app_settings.rate_limit_enabled) =>
          /\ ~Entered("rate_check")
          /\ client_ip = ""

\* The timestamps of a list that lie in the window (now - W, now].
InWindow(timestamps) ==
    SelectSeq(timestamps, LAMBDA ts : now - window_seconds < ts /\ ts <= now)

\* C5: a call of is_allowed for identifier i at time t is admitted exactly
\* when fewer than max_requests calls for i were admitted in (t - W, t];
\* calls that were rejected and calls for other identifiers do not count,
\* and within the window the list the limiter keeps holds exactly the
\* admitted calls.
C5_SlidingWindow ==
    /\ last_call.op = "is_allowed" =>
          (last_call.allowed <=> last_call.before < max_requests)
    /\ last_call.op = "get_remaining_requests" =>
          last_call.remaining = Max(0, max_requests - last_call.before)
    /\ \A i \in Identifiers : InWindow(requests[i]) = InWindow(admitted[i])

\* C5 witness: an identifier was rejected at its limit while another one was
\* admitted, and after the window had passed it was admitted again.
C5_Witness ==
    /\ last_call.op = "is_allowed"
    /\ last_call.allowed
    /\ last_call.before = 0
    /\ Len(admitted[last_call.identifier]) = max_requests + 1
    /\ \E j \in Identifiers \ { last_call.identifier } : admitted[j] # <<>>

\* C6: a body that is not well-formed JSON is answered INVALID_REQUEST with
\* HTTP 400 and get_provider_by_name is never called for it.
C6_MalformedJson ==
    (pc = "done" /\ Entered("parse") /\ ~body.well_formed) =>
        /\ response.kind = "error"
        /\ response.code = "INVALID_REQUEST"
        /\ response.status = HTTP_BAD_REQUEST
        /\ ~Entered("resolve")
        /\ provider_config = NoProvider

\* The active alias rows of a token, and the stored providers of a name
\* (names are looked up without regard to letter case).
AliasRowsOf(t) == { a \in aliases : a.command_alias = t /\ a.is_active }

ProvidersNamed(name) == { p \in providers : Lower(p.name) = Lower(name) }

\* The provider name a path segment addresses: the segment, without a
\* trailing "-custom".
AddressedName(t) ==
    IF EndsWith(t, CustomSuffix) /\ Len(t) > Len(CustomSuffix)
    THEN SubSeq(t, 1, Len(t) - Len(CustomSuffix))
    ELSE t

\* C7: a request that passed validation and addresses a name that matches no
\* alias and no stored provider is answered PROVIDER_NOT_FOUND with HTTP 404,
\* and no adapter is instantiated or dispatched to.
C7_UnknownProvider ==
    (/\ Entered("resolve")
     /\ AliasRowsOf(token) = {}
     /\ ProvidersNamed(AddressedName(token)) = {}) =>
        /\ pc = "done"
        /\ response.kind = "error"
        /\ response.code = "PROVIDER_NOT_FOUND"
        /\ response.status = HTTP_NOT_FOUND
        /\ response.body_status = HTTP_NOT_FOUND
        /\ ~Entered("instantiate")
        /\ provider_instance = <<>>
        /\ sent_stream = <<>>

\* C7 witness: a valid request for "nonexistent" was answered 404 while the
\* store holds other providers.
C7_Witness ==
    /\ pc = "done"
    /\ token = << "nonexistent" >>
    /\ Entered("validate")
    /\ providers # {}
    /\ response.code = "PROVIDER_NOT_FOUND"

\* C8: a request whose path token is both an active command alias and the
\* name of a stored provider is served by the provider the alias is bound to.
C8_AliasPrecedence ==
    (/\ Entered("resolve")
     /\ AliasRowsOf(token) # {}
     /\ ProvidersNamed(token) # {}) =>
        provider_config.id \in { a.provider_id : a \in AliasRowsOf(token) }

\* C9: for a path token that matches no alias, the token is taken as a
\* provider name; custom-prompt behaviour is selected exactly when the token
\* ends with "-custom", and then the provider looked up is the token without
\* that suffix.
C9_FallbackRouting ==
    (pc # "idle" /\ AliasRowsOf(token) = {}) =>
        /\ custom_prompt = EndsWith(token, CustomSuffix)
        /\ provider_name = IF EndsWith(token, CustomSuffix)
                           THEN SubSeq(token, 1, Len(token) - Len(CustomSuffix))
                           ELSE token

\* C10: a request routed through a command alias runs in the prompt mode of
\* the alias's kind: custom-prompt for kind custom, standard for kind
\* standard.
C10_AliasKind ==
    (pc # "idle" /\ alias_info # NoAlias) =>
        \E a \in AliasRowsOf(token) :
            /\ a.provider_id = alias_info.id
            /\ custom_prompt = (a.alias_type = "custom")

\* C11: when the upstream answers with a status other than 200 the caller
\* receives the upstream's status code, content type and body as they are,
\* whether or not a stream was asked for; the body is not put into the
\* proxy's error shape, nothing is translated and nothing is logged.
C11_UpstreamErrorRelay ==
    (pc = "done" /\ Entered("dispatch") /\ upstream.status_code \notin { 0, HTTP_OK }) =>
        /\ response.kind = "upstream"
        /\ response.status = upstream.status_code
        /\ response.content_type = upstream.content_type
        /\ response.body = upstream.chunks
        /\ response.code = ""
        /\ ~Entered("translate")
        /\ log_row = "none"

\* The error codes of the taxonomy (section 7 of the specification).
Taxonomy ==
    { "INVALID_REQUEST", "EMPTY_REQUEST", "VALIDATION_ERROR", "PROVIDER_NOT_FOUND",
      "PROVIDER_ERROR", "REQUEST_PREP_ERROR", "RESPONSE_PARSE_ERROR",
      "RESPONSE_PROCESS_ERROR", "RATE_LIMIT_ERROR", "AUTHENTICATION_ERROR",
      "INTERNAL_ERROR" }

\* C12: every error the proxy itself produces, also for an unknown endpoint
\* and inside a relayed stream, has a code of the taxonomy and a status
\* field equal to the HTTP status of the response that carries it; so a
\* relayed stream, whose HTTP status is the upstream's 200, carries no
\* error chunk.
C12_ErrorShape ==
    /\ response.kind = "error" =>
          /\ response.code \in Taxonomy
          /\ response.body_status = response.status
    /\ response.kind = "stream" =>
          \A i \in DOMAIN response.body : response.body[i] # StreamingErrorChunk

\* The last step a finished run entered.
LastStep == IF trace = <<>> THEN "none" ELSE trace[Len(trace)]

\* The phases that have an error code of their own.
CodedPhases == { "instantiate", "prepare", "dispatch", "parse_upstream", "translate" }

\* C13: a run that fails in adapter instantiation or in the transport to the
\* upstream answers PROVIDER_ERROR, in prepare_request REQUEST_PREP_ERROR, on
\* an unparseable upstream 200 body RESPONSE_PARSE_ERROR, in process_response
\* RESPONSE_PROCESS_ERROR, each with HTTP 500; INTERNAL_ERROR comes only from
\* failures outside those phases.
C13_PhaseCodes ==
    (pc = "done" /\ response.kind = "error" /\ handler # "not_found") =>
        /\ LastStep \in CodedPhases =>
              /\ response.status = HTTP_SERVER_ERROR
              /\ response.body_status = HTTP_SERVER_ERROR
        /\ LastStep \in { "instantiate", "dispatch" } => response.code = "PROVIDER_ERROR"
        /\ LastStep = "prepare" => response.code = "REQUEST_PREP_ERROR"
        /\ LastStep = "parse_upstream" => response.code = "RESPONSE_PARSE_ERROR"
        /\ LastStep = "translate" => response.code = "RESPONSE_PROCESS_ERROR"
        /\ response.code = "INTERNAL_ERROR" => LastStep \notin CodedPhases

\* C13 witness: a run that failed in process_response.
C13_Witness ==
    /\ pc = "done"
    /\ LastStep = "translate"
    /\ response.kind = "error"
    /\ response.code = "RESPONSE_PROCESS_ERROR"

\* C14: a request_logs row is written only by a successful call that was
\* not streamed and only with full logging enabled; when the logging step
\* fails the caller still gets the 200 response with the translated body.
C14_Logging ==
    /\ log_row # "none" =>
          /\ app_settings.enable_full_logging
          /\ ~stream
          /\ upstream.status_code = HTTP_OK
          /\ Entered("translate")
          /\ ~Failed
    /\ (pc = "done" /\ log_row # "none") =>
          /\ response.kind = "json"
          /\ response.status = HTTP_OK
          /\ response.body = << "anthropic_response" >>

\* C14 witness: a finished call whose logging step failed.
C14_Witness ==
    /\ pc = "done"
    /\ log_row = "failed"
    /\ response.status = HTTP_OK
    /\ upstream.json_ok

\* The number of times a run entered a step.
TimesEntered(step) == Cardinality({ i \in DOMAIN trace : trace[i] = step })

\* C15: send_request is called at most once in a run, also when it raises
\* or the upstream answers with an error status; that failure is the end
\* of the run.
C15_NoRetry ==
    /\ Len(sent_stream) <= 1
    /\ TimesEntered("dispatch") <= 1
    /\ Len(sent_stream) = TimesEntered("dispatch")
    /\ (Entered("dispatch") /\ upstream.status_code # HTTP_OK) =>
          /\ pc = "done"
          /\ LastStep = "dispatch"
          /\ response.kind \in { "error", "upstream" }

\* C15 witness: a run whose send_request raised.
C15_Witness ==
    /\ pc = "done"
    /\ LastStep = "dispatch"
    /\ response.code = "PROVIDER_ERROR"
    /\ Len(sent_stream) = 1

\* C17: with the adapter of module grok_direct registered,
\* normalize_provider_name gives the same registry key, grok-direct, for the
\* display name "Grok (Direct)" and for "grok-direct".
C17_GrokDisplayName ==
    (/\ fn.op = "normalize_provider_name"
     /\ fn.name \in { <<"Grok", " ", "(", "Direct", ")">>, <<"grok", "-", "direct">> }
     /\ <<"grok", "-", "direct">> \in provider_keys) =>
        fn.out_name = <<"grok", "-", "direct">>

\* The registered keys that equal a name up to letter case.
KeysMatching(name) == { k \in provider_keys : Lower(k) = Lower(name) }

\* C18: normalize_provider_name returns the registered key that equals the
\* name up to letter case, also when the key has hyphens, and returns the
\* name unchanged when no registered key does.
C18_NormalizeProviderName ==
    fn.op = "normalize_provider_name" =>
        /\ KeysMatching(fn.name) # {} => fn.out_name \in KeysMatching(fn.name)
        /\ KeysMatching(fn.name) = {} => fn.out_name = fn.name

\* The part of a string before its first hyphen (all of it when it has none).
BeforeFirstHyphen(s) ==
    IF \E i \in DOMAIN s : s[i] = "-"
    THEN SubSeq(s, 1, (CHOOSE i \in DOMAIN s :
                          s[i] = "-" /\ \A j \in 1..(i - 1) : s[j] # "-") - 1)
    ELSE s

\* Lower case, spaces and underscores turned into hyphens.
Hyphenated(s) ==
    [i \in DOMAIN s |-> IF s[i] \in { " ", "_" } THEN "-" ELSE LowerCh(s[i])]

\* The three candidates of get_model_mapping, in the order they are tried.
Candidates(model_name) ==
    << model_name, Hyphenated(model_name), BeforeFirstHyphen(Hyphenated(model_name)) >>

\* The stored providers a name addresses, and the mapping of one of them.
MappingOf(p) == JsonLoads(provider_columns[p.id].model_mapping).value

\* C19: get_model_mapping returns the value of the first of its three
\* candidates (the exact string, the normalized string, the part of the
\* normalized string before its first hyphen) that is a key of the
\* provider's stored mapping, and returns nothing exactly when none of them
\* is a key or the provider or its mapping is missing.
C19_ModelMapping ==
    fn.op = "get_model_mapping" =>
        \E p \in GetProviderByName(fn.name) :
            LET cands == Candidates(fn.model)
                hits == { i \in 1..3 : p # NoProvider /\ cands[i] \in DOMAIN MappingOf(p) }
            IN /\ hits = {} <=> fn.out_model = NoModel
               /\ hits # {} =>
                     fn.out_model =
                        MappingOf(p)[cands[CHOOSE i \in hits : \A j \in hits : i <= j]]

\* base64 decoding of the two encoded keys
Base64Decode(text) ==
    CASE text = "c2stMQ==" -> "sk-1"
      [] text = "c2stMg==" -> "sk-2"
      [] OTHER -> "(not base64)"

\* C20: get_auth_headers returns exactly Authorization: Bearer <key> for
\* the bearer-token method, exactly Authorization: Basic <base64(key)> for
\* the basic-auth method, nothing for the custom-header method, and never a
\* header other than Authorization.
C20_AuthHeaders ==
    fn.op = "get_auth_headers" =>
        /\ DOMAIN fn.out_headers \subseteq { "Authorization" }
        /\ fn.auth_method = "bearer_token" =>
              /\ DOMAIN fn.out_headers = { "Authorization" }
              /\ fn.out_headers["Authorization"] = << "Bearer ", fn.api_key >>
        /\ fn.auth_method = "basic_auth" =>
              /\ DOMAIN fn.out_headers = { "Authorization" }
              /\ fn.out_headers["Authorization"][1] = "Basic "
              /\ Base64Decode(fn.out_headers["Authorization"][2]) = fn.api_key
        /\ fn.auth_method = "custom_header" => DOMAIN fn.out_headers = {}

\* C20 witness: a call for the basic-auth method.
C20_Witness ==
    /\ fn.op = "get_auth_headers"
    /\ fn.auth_method = "basic_auth"
    /\ fn.out_headers = [h \in { "Authorization" } |-> << "Basic ", "c2stMQ==" >>]

\* The requested model names the model family of the canonical dialect, which
\* is foreign to the adapter's upstream: the name holds "claude" in any case.
NamesForeignFamily(request) ==
    /\ "model" \in DOMAIN request
    /\ \E i \in DOMAIN request["model"] : request["model"][i] \in { "claude", "Claude" }

WellFormed(request_data) ==
    LET f == request_data.fields
    IN /\ request_data.type = "dict"
       /\ "model" \in DOMAIN f
       /\ f["model"] \notin { "", "null" }
       /\ "messages" \in DOMAIN f
       /\ f["messages"] \in { "[]", "[m]" }
       /\ "max_tokens" \in DOMAIN f =>
              f["max_tokens"] \in { "1", "100", "4096" }
       /\ "temperature" \in DOMAIN f =>
              f["temperature"] \in { "0", "0.5", "1" }
       /\ "tools" \in DOMAIN f => f["tools"] \in { "[]", "[m]" }

\* C22: validate_anthropic_request accepts a request exactly when model is
\* present and non-empty, messages is present and is a list (the empty list
\* included), and each optional field that is present is well-formed:
\* max_tokens an integer in its allowed range, temperature a number from 0 to
\* 1, tools a list; every accepted result contains model and messages.
C22_Validation ==
    fn.op = "validate_anthropic_request" =>
        /\ fn.validated.ok = WellFormed(fn.request_data)
        /\ fn.validated.ok =>
               { "model", "messages" } \subseteq DOMAIN fn.validated.value.fields

\* C23: when the registry is empty, every registry lookup fails without
\* raising, and a request addressed to any provider name, one with a stored
\* definition included, is answered with a NOT_FOUND error, not with a 500.
C23_EmptyRegistry ==
    provider_keys = {} =>
        /\ \A t \in Tokens : GetProviderClass(t) = <<>>
        /\ (pc = "done" /\ Entered("resolve")) =>
               /\ response.kind = "error"
               /\ response.code = "PROVIDER_NOT_FOUND"
               /\ response.status = HTTP_NOT_FOUND

\* The providers whose active flag is set.
ActiveProviders == { p \in providers : provider_columns[p.id].is_active }

\* C24: after any sequence of admin provider operations (create, edit,
\* activate, delete) at most one provider definition has its active flag
\* set; after activating an existing provider, exactly that one is active.
C24_SingleActive ==
    /\ Cardinality(ActiveProviders) <= 1
    /\ (admin.op = "provider_activate" /\ admin.ok) =>
           { p.id : p \in ActiveProviders } = { admin.provider_id }

\* The custom headers the provider_headers table holds for a provider.
StoredHeaders(provider_id) ==
    LET rows == { ph \in provider_headers : ph.provider_id = provider_id }
    IN [key \in { ph.header_key : ph \in rows } |->
           (CHOOSE ph \in rows : ph.header_key = key).header_value]

\* C30: round trip of a provider definition: after the admin has saved a
\* definition (create or edit) with custom headers H, model mapping M and
\* dialect tag D, get_provider_by_name of its name returns headers equal to
\* H, model_mapping equal to M and api_standard equal to D, whatever the
\* header values hold (a comma or a colon included).
C30_RoundTrip ==
    (admin.op \in { "provider_new", "provider_edit" } /\ admin.ok) =>
        \A p \in providers :
            p.id = admin.provider_id =>
                \A config \in GetProviderConfig(p.name) :
                    /\ config.headers = StoredHeaders(p.id)
                    /\ config.model_mapping =
                           JsonLoads(provider_columns[p.id].model_mapping).value
                    /\ config.api_standard = provider_columns[p.id].api_standard

\* C25: a provider is never deleted while an alias record references it: no
\* delete of a provider takes effect at a moment when an alias is bound to
\* that provider.
C25_NoDeleteWhileReferenced ==
    (admin.op = "provider_delete" /\ admin.ok) => ~admin.referenced

\* C26: there is at most one alias record per (provider, kind); set_alias
\* for a pair that already has an alias replaces it, and get_alias returns
\* the token set last (nothing when none was set, or it was removed since).
C26_AliasPerPair ==
    /\ \A a, b \in aliases :
          (a.provider_id = b.provider_id /\ a.alias_type = b.alias_type) => a = b
    /\ \A pair \in AliasPairs : GetAlias(pair[1], pair[2]) = { admin.last_alias[pair] }

\* C26 witness: a set_alias has just replaced the alias of a pair that had
\* another token before.
C26_Witness ==
    /\ admin.op = "set_alias"
    /\ admin.ok
    /\ admin.provider_id = 1
    /\ admin.alias_type = "standard"
    /\ admin.referenced
    /\ admin.command_alias = <<"fast", "-", "custom">>
    /\ GetAlias(1, "standard") = { <<"fast", "-", "custom">> }

\* C27: an active alias token is bound to at most one (provider, kind) pair,
\* so get_provider_by_alias of a token has a single possible result.
C27_TokenUnique ==
    /\ \A a, b \in aliases :
          (a.is_active /\ b.is_active /\ a.command_alias = b.command_alias) => a = b
    /\ \A command_alias \in AliasTokens :
          Cardinality(GetProviderByAlias(command_alias)) = 1

\* The calls admitted for an identifier in the window that ends at instant s.
AdmittedInWindow(identifier, s) ==
    SelectSeq(admitted[identifier], LAMBDA ts : s - window_seconds < ts /\ ts <= s)

\* C28: under every interleaving of is_allowed calls from several worker
\* threads, the calls admitted for an identifier within any one window never
\* exceed max_requests, and within the current window the record of the
\* identifier holds every admitted call.
C28_ConcurrentLimit ==
    \A i \in Identifiers :
        /\ \A s \in 0..MaxTime : Len(AdmittedInWindow(i, s)) <= max_requests
        /\ InWindow(requests[i]) = InWindow(admitted[i])

\* C28 witness: a worker is about to return a rejection for an identifier at
\* its limit while another worker waits for the lock with the same identifier.
C28_Witness ==
    \E w, v \in Workers :
        /\ w # v
        /\ workers[w].pc = "return"
        /\ ~workers[w].allowed
        /\ lock = w
        /\ workers[v].pc = "lock"
        /\ workers[v].identifier = workers[w].identifier
        /\ Len(InWindow(admitted[workers[w].identifier])) = max_requests


\* C29: the limit proxy_request enforces on a client address is the one of
\* the application settings: a request is let past the rate check exactly
\* when fewer than rate_limit_requests requests of its address were admitted
\* in the last rate_limit_window seconds, with the settings as they are when
\* the request is checked.
C29_SettingsEnforced ==
    [][(pc = "rate_check" /\ pc' # "rate_check" /\ settings.rate_limit_enabled) =>
          LET ip == client_ip'
              recent == SelectSeq(admitted[ip],
                            LAMBDA ts : /\ now - rate_limit_settings.rate_limit_window < ts
                                        /\ ts <= now)
          IN (admitted'[ip] # admitted[ip]) <=>
                 Len(recent) < rate_limit_settings.rate_limit_requests]_vars


====
